---- MODULE Spec2Model ----
(***************************************************************************)
(* Token discovery table: the Synchronization Coordinator                  *)
(* (useProgressiveTokens) and the Mutation Coordinator (useUpdateTokenPrice,*)
(* useAddToken, useRemoveToken) writing to two stores, the State Store     *)
(* (Redux slice "tokens") and the Cache Layer (React Query cache).         *)
(*                                                                         *)
(* JavaScript runs every handler to completion, so one handler (a timer    *)
(* callback, a feed callback, the part of a mutation callback after its    *)
(* last await) is one action.                                              *)
(***************************************************************************)
EXTENDS Integers, Sequences, FiniteSets, TLC

\* ------------------------------------------------------------ constants

\* TokenCategory: 'new-pairs' | 'final-stretch' | 'migrated'
Categories == {"new-pairs", "final-stretch", "migrated"}

\* Object.keys(previousTokens): the order in which onMutate scans categories
CategoryOrder == <<"new-pairs", "final-stretch", "migrated">>

\* countPerCategory, the parameter of useProgressiveTokens (the page passes
\* 12): a bound of the model, chosen so that a category takes more than one
\* batch and its last batch is a short one
CountPerCategory == 5

\* batch size passed to generateProgressiveTokens
BatchSize == 4

\* number of categories in the completion test (countPerCategory * 3)
CategoryCount == 3

\* bound of the model: the number of mutations issued plus live ticks
\* delivered in one run
MaxOps == 2

\* ids: warm-up tokens of a category are IdBase(c) + 1 .. IdBase(c) + n,
\* tokens made by addTokenApi are numbered from FirstAddedId, UnknownId is
\* an id no token ever has.
IdBase(c) == CASE c = "new-pairs" -> 100
               [] c = "final-stretch" -> 200
               [] c = "migrated" -> 300
FirstAddedId == 901
UnknownId == 999

\* the inputs the model draws from
FocusIds == {101, 102, 201, UnknownId}
DeltaIds == {101, 102, UnknownId}
DeltaPrice == 70

Min(a, b) == IF a < b THEN a ELSE b

\* ------------------------------------------------------------ tokens

\* A Token; marketCap stands for every field a PriceUpdate does not carry.
generateMockToken(category, id) ==
    [id |-> id, category |-> category, price |-> 10,
     priceChange1m |-> 1, priceChange5m |-> 2, marketCap |-> 5]

\* A PriceUpdate (timestamp is not read by any handler)
PriceUpdate(tokenId, price, pc1m, pc5m) ==
    [tokenId |-> tokenId, price |-> price,
     priceChange1m |-> pc1m, priceChange5m |-> pc5m]

\* Array.prototype.filter / map / find on a sequence
RECURSIVE FilterOut(_, _)
FilterOut(s, id) ==
    IF s = <<>> THEN <<>>
    ELSE IF Head(s).id = id THEN FilterOut(Tail(s), id)
         ELSE <<Head(s)>> \o FilterOut(Tail(s), id)

HasId(s, id) == \E i \in 1..Len(s) : s[i].id = id

Find(s, id) == s[CHOOSE i \in 1..Len(s) :
                    s[i].id = id /\ \A j \in 1..(i - 1) : s[j].id # id]

ApplyUpdate(s, u) ==
    [i \in 1..Len(s) |->
        IF s[i].id = u.tokenId
        THEN [s[i] EXCEPT !.price = u.price,
                          !.priceChange1m = u.priceChange1m,
                          !.priceChange5m = u.priceChange5m]
        ELSE s[i]]

\* ------------------------------------------------------------ State Store
\* The reducers of the tokens slice. A store value r maps each category to
\* its token sequence.

setTokens(r, category, tokens) == [r EXCEPT ![category] = tokens]

\* a reducer that inserts the token it does not find
MutUpdateTokenPrice(r, u) ==
    IF \E c \in Categories : HasId(r[c], u.tokenId)
    THEN [c \in Categories |-> ApplyUpdate(r[c], u)]
    ELSE [r EXCEPT !["new-pairs"] =
             Append(@, [generateMockToken("new-pairs", u.tokenId)
                          EXCEPT !.price = u.price])]

updateTokenPrice(r, u) == [c \in Categories |-> ApplyUpdate(r[c], u)]

RECURSIVE batchUpdatePrices(_, _)
batchUpdatePrices(r, updates) ==
    IF updates = <<>> THEN r
    ELSE batchUpdatePrices(updateTokenPrice(r, Head(updates)), Tail(updates))

addToken(r, category, token) ==
    [r EXCEPT ![category] = <<token>> \o r[category]]

removeToken(r, category, tokenId) ==
    [r EXCEPT ![category] = FilterOut(r[category], tokenId)]

\* ------------------------------------------------------------ Cache Layer
\* A cache value q maps each category key ['tokens', category] to an entry:
\* has = FALSE is a key with no data (getQueryData gives undefined).

NoEntry == [has |-> FALSE, data |-> <<>>]

Entry(tokens) == [has |-> TRUE, data |-> tokens]

setQueryData(q, category, tokens) == [q EXCEPT ![category] = Entry(tokens)]

\* a getTokens read of the Cache Layer: a key without data reads as empty
CacheTokens(q, category) == q[category].data

\* ------------------------------------------------------------ Feed Source
\* generateProgressiveTokens(countPerCategory, onBatch, batchSize, delayMs):
\* per category, batch k delivers the tokens accumulated so far, batchSize
\* more each time until countPerCategory is reached; isComplete is true on
\* the batch that reaches it.

NumBatches == (CountPerCategory + BatchSize - 1) \div BatchSize

BatchTokens(category, k) ==
    [i \in 1..Min(k * BatchSize, CountPerCategory) |->
        generateMockToken(category, IdBase(category) + i)]

IsComplete(k) == k * BatchSize >= CountPerCategory

\* ------------------------------------------------------------ state

VARIABLES
    redux,            \* State Store: category -> tokens
    connectionStatus, \* State Store: connectionStatus
    statusLog,        \* history: the values the Coordinator wrote to
                      \* connectionStatus
    cache,            \* Cache Layer: category -> entry
    cacheAll,         \* Cache Layer: the ['tokens'] key
    invalidated,      \* Cache Layer: keys marked stale
    allTokensRef,     \* Coordinator: tokens of completed categories
    phase,            \* Coordinator: "init", "mounted", "unmounted"
    startDelay,       \* the 200 ms timer: "none", "pending", "fired", "cleared"
    delivered,        \* Feed Source: category -> batches delivered so far
    wsRunning,        \* Feed Source: live feed ticking
    wsTokens,         \* Feed Source: ids given to webSocketMock.start
    wsStarts,         \* history: number of webSocketMock.start calls
    subscribed,       \* Feed Source: the Coordinator's listener is registered
    inflight,         \* Mutation Coordinator: mutations whose write is pending
    nMut,             \* number of mutations issued
    nTicks,           \* number of live ticks delivered
    notifications,    \* Resilience Manager: the notification queue
    succeeded,        \* history: the mutations whose write succeeded
    failed,           \* history: the mutations whose write failed
    fetching,         \* Cache Layer: the fetches in flight
    options,          \* useErrorHandler: maxRetries, baseDelay, maxDelay
    error,            \* State Store: error
    retryCount,       \* useErrorHandler: retryCount
    isRetrying,       \* useErrorHandler: isRetrying
    retryTimeoutRef,  \* useErrorHandler: the timer id in retryTimeoutRef, 0 for null
    retryTimers,      \* the retry timers that are armed
    retryRunning,     \* the retry attempts awaiting retryFn
    retryLog,         \* history: what the retry wrapper did, in order
    nNotified,        \* the number of notifications ever added
    expiryTimers,     \* the auto-dismiss timers armed so far, in order
    delayAttempt,     \* calculateDelay: the attempt it is asked for
    delayRandom,      \* calculateDelay: what Math.random() gives, in steps
    delayResult,      \* calculateDelay: its result, -1 before the call
    recoveryMounted,  \* useConnectionRecovery is mounted
    retryAttempt,     \* useConnectionRecovery: retryAttempt
    probeInterval,    \* the armed probe interval: the retryAttempt its
                      \* callback captured, -1 when none is armed
    probing,          \* the probes (connectFn calls) in flight
    nProbes,          \* history: the number of connectFn calls
    nSignals,         \* history: the number of external status signals
    failStreak,       \* history: failed probes since the last success
    arrays,           \* Sort/Selection Engine: the arrays, by reference
    sortConfig,       \* State Store: sortConfig, per category
    sortResult,       \* the array the last selector evaluation returned
    nSelects,         \* the number of selector evaluations
    sliceVersion,     \* State Store: which object state.tokens is, counted
    memo              \* the selector's memoized results

tokenVars == <<redux, connectionStatus, statusLog, cache, cacheAll, invalidated,
          allTokensRef, phase, startDelay, delivered, wsRunning, wsTokens,
          wsStarts, subscribed, inflight, nMut, nTicks, notifications,
          succeeded, failed, fetching>>

retryVars == <<error, retryCount, isRetrying, retryTimeoutRef, retryTimers,
               retryRunning, retryLog, nNotified, expiryTimers>>

delayVars == <<delayAttempt, delayRandom, delayResult>>

recoveryVars == <<recoveryMounted, retryAttempt, probeInterval, probing,
                  nProbes, nSignals, failStreak>>

resilienceVars == <<options, retryVars, delayVars, recoveryVars>>

sortVars == <<arrays, sortConfig, sortResult, nSelects, sliceVersion, memo>>

vars == <<tokenVars, resilienceVars, sortVars>>

syncVars == <<connectionStatus, statusLog, cacheAll, allTokensRef, phase,
              startDelay, delivered, wsRunning, wsTokens, wsStarts,
              subscribed, nTicks>>

\* the defaults of useErrorHandler's options
DefaultMaxRetries == 3
DefaultBaseDelay == 1000
DefaultMaxDelay == 30000

DefaultOptions ==
    [maxRetries |-> DefaultMaxRetries, baseDelay |-> DefaultBaseDelay,
     maxDelay |-> DefaultMaxDelay]

\* the arrays of the Sort/Selection Engine are kept by reference: one per
\* category for the State Store's collections, one more for each result
MaxSelects == 2
SliceRef(category) == CASE category = "new-pairs" -> 1
                        [] category = "final-stretch" -> 2
                        [] category = "migrated" -> 3
FreshRef(n) == CategoryCount + n
ArrayRefs == 1..FreshRef(MaxSelects)

\* what a selector call returned: the array, and as history the sort
\* config and the collection it was computed from
Result(category, ref, config, tokens) ==
    [category |-> category, ref |-> ref, config |-> config, tokens |-> tokens]

NoResult == Result("none", 0, [sortBy |-> "none", sortOrder |-> "none"], <<>>)

\* the sort config a category starts with (the slice's initial state is not
\* among the sources: any config is drawn where the selector is checked)
InitialSortConfig == [sortBy |-> "createdAt", sortOrder |-> "desc"]

\* the store before any token, no selector evaluated
SortIdle ==
    /\ arrays = [ref \in ArrayRefs |-> <<>>]
    /\ sortConfig = [c \in Categories |-> InitialSortConfig]
    /\ sortResult = NoResult
    /\ nSelects = 0
    /\ sliceVersion = 0
    /\ memo = {}

\* useErrorHandler after its first render
RetryIdle ==
    /\ error = "null"
    /\ retryCount = 0
    /\ isRetrying = FALSE
    /\ retryTimeoutRef = 0
    /\ retryTimers = {}
    /\ retryRunning = {}
    /\ retryLog = <<>>
    /\ nNotified = 0
    /\ expiryTimers = <<>>

\* calculateDelay not yet called
DelayIdle ==
    /\ delayAttempt = 0
    /\ delayRandom = 0
    /\ delayResult = -1

\* useConnectionRecovery not mounted
RecoveryIdle ==
    /\ recoveryMounted = FALSE
    /\ retryAttempt = 0
    /\ probeInterval = -1
    /\ probing = 0
    /\ nProbes = 0
    /\ nSignals = 0
    /\ failStreak = 0

TokenInit ==
    /\ redux = [c \in Categories |-> <<>>]
    /\ connectionStatus = "disconnected"
    /\ statusLog = <<>>
    /\ cache = [c \in Categories |-> NoEntry]
    /\ cacheAll = FALSE
    /\ invalidated = {}
    /\ allTokensRef = [c \in Categories |-> <<>>]
    /\ phase = "init"
    /\ startDelay = "none"
    /\ delivered = [c \in Categories |-> 0]
    /\ wsRunning = FALSE
    /\ wsTokens = {}
    /\ wsStarts = 0
    /\ subscribed = FALSE
    /\ inflight = {}
    /\ nMut = 0
    /\ nTicks = 0
    /\ notifications = <<>>
    /\ succeeded = {}
    /\ failed = {}
    /\ fetching = {}

Init ==
    /\ TokenInit
    /\ options = DefaultOptions
    /\ RetryIdle
    /\ DelayIdle
    /\ RecoveryIdle
    /\ SortIdle

\* Stores agree on a category: same tokens, same values, same order.
Agree(r, q, c) == r[c] = CacheTokens(q, c)

\* The categories whose collection a step changes in either store.
Changed == {c \in Categories : redux'[c] # redux[c] \/ cache'[c] # cache[c]}

\* history kept with each pending mutation: the categories other handlers
\* changed since its optimistic step, and whether another mutation was
\* pending at any time since it began
Disturb(ms) == {[m EXCEPT !.interleaved = @ \cup Changed] : m \in ms}

Overlap(ms) ==
    {[m EXCEPT !.interleaved = @ \cup Changed, !.overlapped = TRUE] : m \in ms}

\* ------------------------------------------------------------ Synchronization Coordinator

MutInitialStatus == "disconnected"

\* the status the init effect writes before any batch
InitialStatus == "connecting"

\* both effects of useProgressiveTokens run on mount
Mount ==
    /\ phase = "init"
    /\ phase' = "mounted"
    /\ connectionStatus' = InitialStatus
    /\ statusLog' = Append(statusLog, InitialStatus)
    /\ startDelay' = "pending"
    /\ subscribed' = TRUE
    /\ UNCHANGED <<redux, cache, cacheAll, invalidated, allTokensRef,
                   delivered, wsRunning, wsTokens, wsStarts, inflight, nMut,
                   nTicks, notifications, succeeded, failed>>
    /\ UNCHANGED <<resilienceVars, sortVars>>
    /\ UNCHANGED fetching

\* the 200 ms timer fires and calls generateProgressiveTokens, which arms
\* the batch timers; the cancel handle it returns is returned from the timer
\* callback, where nothing receives it
StartDelayFires ==
    /\ startDelay = "pending"
    /\ startDelay' = "fired"
    /\ UNCHANGED <<redux, connectionStatus, statusLog, cache, cacheAll,
                   invalidated, allTokensRef, phase, delivered, wsRunning,
                   wsTokens, wsStarts, subscribed, inflight, nMut, nTicks,
                   notifications, succeeded, failed>>
    /\ UNCHANGED <<resilienceVars, sortVars>>
    /\ UNCHANGED fetching

MutOnBatchRedux(r, category, tokens) ==
    [r EXCEPT ![category] = r[category] \o tokens]

\* the batch handler's writes
onBatchRedux(r, category, tokens) == setTokens(r, category, tokens)

onBatchCache(q, category, tokens) == setQueryData(q, category, tokens)

\* allTokensRef.current = [...filter(t => t.category !== category), ...tokens]
\* kept per category: every read of it is a length, a lookup by id or a
\* filter by category, none of which depends on the order of the blocks
TrackTokens(ref, category, tokens) == [ref EXCEPT ![category] = tokens]

RefLength(ref) ==
    Len(ref["new-pairs"]) + Len(ref["final-stretch"]) + Len(ref["migrated"])

MutAllLoaded(ref) == RefLength(ref) >= CountPerCategory

AllLoaded(ref) == RefLength(ref) >= CountPerCategory * CategoryCount

RefIds(ref) ==
    UNION {{ref[c][i].id : i \in 1..Len(ref[c])} : c \in Categories}

OnBatch(category) ==
    /\ startDelay = "fired"
    /\ delivered[category] < NumBatches
    /\ LET k == delivered[category] + 1
           tokens == BatchTokens(category, k)
           ref == TrackTokens(allTokensRef, category, tokens)
       IN /\ delivered' = [delivered EXCEPT ![category] = k]
          /\ redux' = onBatchRedux(redux, category, tokens)
          /\ cache' = onBatchCache(cache, category, tokens)
          /\ IF IsComplete(k)
             THEN /\ allTokensRef' = ref
                  /\ IF AllLoaded(ref)
                     THEN /\ connectionStatus' = "connected"
                          /\ statusLog' = Append(statusLog, "connected")
                          /\ wsRunning' = TRUE
                          /\ wsTokens' = RefIds(ref)
                          /\ wsStarts' = wsStarts + 1
                          /\ cacheAll' = TRUE
                          /\ invalidated' = invalidated \ {category, "all"}
                     ELSE /\ invalidated' = invalidated \ {category}
                          /\ UNCHANGED <<connectionStatus, statusLog,
                                         wsRunning, wsTokens, wsStarts,
                                         cacheAll>>
             ELSE /\ invalidated' = invalidated \ {category}
                  /\ UNCHANGED <<allTokensRef, connectionStatus, statusLog,
                                 wsRunning, wsTokens, wsStarts, cacheAll>>
    /\ inflight' = Disturb(inflight)
    /\ UNCHANGED <<phase, startDelay, subscribed, nMut, nTicks,
                   notifications, succeeded, failed>>
    /\ UNCHANGED <<resilienceVars, sortVars>>
    /\ UNCHANGED fetching

\* unmount: the init effect's cleanup (clearTimeout(startDelay);
\* webSocketMock.stop()) and the subscription effect's unsubscribe
Teardown ==
    /\ phase = "mounted"
    /\ phase' = "unmounted"
    /\ startDelay' = IF startDelay = "pending" THEN "cleared" ELSE startDelay
    /\ wsRunning' = FALSE
    /\ subscribed' = FALSE
    /\ UNCHANGED <<redux, connectionStatus, statusLog, cache, cacheAll,
                   invalidated, allTokensRef, delivered, wsTokens, wsStarts,
                   inflight, nMut, nTicks, notifications, succeeded, failed>>
    /\ UNCHANGED <<resilienceVars, sortVars>>
    /\ UNCHANGED fetching

\* the category allTokensRef.current.find(t => t.id === id) gives
RefCategory(ref, id) ==
    IF \E c \in Categories : HasId(ref[c], id)
    THEN CHOOSE c \in Categories : HasId(ref[c], id)
    ELSE "none"

\* the subscription's write to the State Store
onUpdatesRedux(r, updates) == batchUpdatePrices(r, updates)

MutOnUpdatesCache(q, ref, updates) == q

\* the subscription's write to the Cache Layer, update by update
RECURSIVE onUpdatesCache(_, _, _)
onUpdatesCache(q, ref, updates) ==
    IF updates = <<>> THEN q
    ELSE LET u == Head(updates)
             c == RefCategory(ref, u.tokenId)
             q1 == IF c # "none" /\ q[c].has
                   THEN setQueryData(q, c, ApplyUpdate(q[c].data, u))
                   ELSE q
         IN onUpdatesCache(q1, ref, Tail(updates))

\* the keys the subscription calls setQueryData on
UpdatedKeys(q, ref, updates) ==
    {c \in Categories :
        /\ q[c].has
        /\ \E i \in 1..Len(updates) : RefCategory(ref, updates[i].tokenId) = c}

Delta(id) == PriceUpdate(id, DeltaPrice, 7, 8)

\* the PriceUpdate arrays a tick may carry: for tokens given to start, and
\* for an id nothing knows
DeltaBatches ==
    {<<Delta(id)>> : id \in DeltaIds \cap (wsTokens \cup {UnknownId})}
    \cup (IF 101 \in wsTokens
          THEN {<<PriceUpdate(101, DeltaPrice + 2, 3, 4)>>}
          ELSE {})
    \cup (IF {101, 102} \subseteq wsTokens
          THEN {<<Delta(101), PriceUpdate(102, DeltaPrice + 1, 0, 9)>>}
          ELSE {})

OnPriceUpdates(updates) ==
    /\ wsRunning
    /\ subscribed
    /\ nMut + nTicks < MaxOps
    /\ nTicks' = nTicks + 1
    /\ redux' = onUpdatesRedux(redux, updates)
    /\ cache' = onUpdatesCache(cache, allTokensRef, updates)
    /\ invalidated' = invalidated \ UpdatedKeys(cache, allTokensRef, updates)
    /\ inflight' = Disturb(inflight)
    /\ UNCHANGED <<connectionStatus, statusLog, cacheAll, allTokensRef, phase,
                   startDelay, delivered, wsRunning, wsTokens, wsStarts,
                   subscribed, nMut, notifications, succeeded, failed>>
    /\ UNCHANGED <<resilienceVars, sortVars>>
    /\ UNCHANGED fetching

SyncNext ==
    \/ Mount
    \/ StartDelayFires
    \/ \E c \in Categories : OnBatch(c)
    \/ Teardown
    \/ \E updates \in DeltaBatches : OnPriceUpdates(updates)

\* ------------------------------------------------------------ Mutation Coordinator
\* A mutation runs onMutate (one handler after its await), then its write
\* settles and onSuccess or onError runs, followed by onSettled. A pending
\* mutation is a record: its arguments, the context onMutate returned
\* (previousTokens, targetCategory) and, as history, both stores and the
\* notification queue as they were when onMutate began.

\* mutations are issued by the page once the cold start has converged
CanMutate ==
    /\ phase = "mounted"
    /\ wsStarts > 0
    /\ nMut + nTicks < MaxOps

\* the price the n-th mutation asks for: each asks for its own
PriceChoices == {50 + 10 * nMut}

Mutation(mid, kind, tokenId, category, newPrice, previousTokens, target) ==
    [mid |-> mid, kind |-> kind, tokenId |-> tokenId, category |-> category,
     newPrice |-> newPrice, previousTokens |-> previousTokens,
     targetCategory |-> target, interleaved |-> {},
     overlapped |-> inflight # {},
     preRedux |-> redux, preCache |-> cache, preNotifications |-> notifications,
     preFetching |-> fetching]

\* a queryClient.cancelQueries that cancels nothing
MutCancelQueries(fetches, keys) == fetches

\* queryClient.cancelQueries({queryKey}): the fetches in flight without
\* those of the matching keys, whose responses are dropped
cancelQueries(fetches, keys) == {f \in fetches : f.key \notin keys}

\* what an onMutate that reads none of the cache would keep as its snapshot
MutSnapshotAll(q) == [c \in Categories |-> NoEntry]

\* the snapshot useUpdateTokenPrice.onMutate takes: the cached tokens of the
\* three category keys, as they are when the handler runs
snapshotAll(q) == [c \in Categories |-> q[c]]

\* the snapshot useAddToken.onMutate and useRemoveToken.onMutate take: the
\* cached tokens of the one category
snapshotCategory(q, category) ==
    [c \in Categories |-> IF c = category THEN q[c] ELSE NoEntry]

\* queryClient.invalidateQueries marks the matching keys that hold a query
ExistingKeys(q, all) ==
    {c \in Categories : q[c].has} \cup (IF all THEN {"all"} ELSE {})

\* an onSettled that marks nothing
MutInvalidateQueries(inv, existing, keys) == inv

\* queryClient.invalidateQueries({queryKey}): inv, the keys marked stale,
\* with those of the matching keys that hold a query; cached data is left
invalidateQueries(inv, existing, keys) == inv \cup (keys \cap existing)

\* the keys tokenQueryKeys.all = ['tokens'] is a prefix of
AllKeys == Categories \cup {"all"}

\* -- useUpdateTokenPrice

\* the first category, in key order, whose cached tokens hold tokenId
FindTargetCategory(q, tokenId) ==
    IF \E i \in 1..Len(CategoryOrder) :
          q[CategoryOrder[i]].has /\ HasId(q[CategoryOrder[i]].data, tokenId)
    THEN CategoryOrder[
            CHOOSE i \in 1..Len(CategoryOrder) :
               /\ q[CategoryOrder[i]].has
               /\ HasId(q[CategoryOrder[i]].data, tokenId)
               /\ \A j \in 1..(i - 1) :
                     ~(q[CategoryOrder[j]].has
                       /\ HasId(q[CategoryOrder[j]].data, tokenId))]
    ELSE "null"

SetPrice(s, tokenId, newPrice) ==
    [i \in 1..Len(s) |->
        IF s[i].id = tokenId THEN [s[i] EXCEPT !.price = newPrice] ELSE s[i]]

updatePriceOnMutateCache(q, tokenId, newPrice) ==
    LET target == FindTargetCategory(q, tokenId)
    IN IF target # "null"
       THEN setQueryData(q, target, SetPrice(q[target].data, tokenId, newPrice))
       ELSE q

updatePriceOnMutateRedux(r, tokenId, newPrice) ==
    updateTokenPrice(r, PriceUpdate(tokenId, newPrice, 0, 0))

UpdatePriceMutate(tokenId, newPrice) ==
    /\ CanMutate
    /\ nMut' = nMut + 1
    /\ LET target == FindTargetCategory(cache, tokenId)
       IN /\ cache' = updatePriceOnMutateCache(cache, tokenId, newPrice)
          /\ redux' = updatePriceOnMutateRedux(redux, tokenId, newPrice)
          /\ invalidated' = invalidated \ {target}
          /\ inflight' = Overlap(inflight) \cup
                {Mutation(nMut + 1, "update", tokenId, "null", newPrice,
                          snapshotAll(cache), target)}
    /\ UNCHANGED syncVars
    /\ UNCHANGED <<notifications, succeeded, failed>>
    /\ UNCHANGED <<resilienceVars, sortVars>>
    /\ fetching' = cancelQueries(fetching, AllKeys)

\* onSuccess is not defined: onSettled alone runs
UpdatePriceSuccess(m) ==
    /\ m \in inflight
    /\ m.kind = "update"
    /\ invalidated' = invalidateQueries(invalidated,
                                       ExistingKeys(cache, cacheAll), AllKeys)
    /\ inflight' = inflight \ {m}
    /\ succeeded' = succeeded \cup {m}
    /\ UNCHANGED failed
    /\ UNCHANGED <<resilienceVars, sortVars>>
    /\ UNCHANGED fetching
    /\ UNCHANGED <<redux, cache, nMut, notifications>>
    /\ UNCHANGED syncVars

updatePriceOnErrorCache(q, m) ==
    IF m.targetCategory # "null" /\ m.previousTokens[m.targetCategory].has
    THEN setQueryData(q, m.targetCategory,
                      m.previousTokens[m.targetCategory].data)
    ELSE q

updatePriceOnErrorRedux(r, m) ==
    IF /\ m.targetCategory # "null"
       /\ m.previousTokens[m.targetCategory].has
       /\ HasId(m.previousTokens[m.targetCategory].data, m.tokenId)
    THEN LET originalToken ==
                 Find(m.previousTokens[m.targetCategory].data, m.tokenId)
         IN updateTokenPrice(r, PriceUpdate(m.tokenId, originalToken.price,
                                            originalToken.priceChange1m,
                                            originalToken.priceChange5m))
    ELSE r

\* what onError adds to the notification queue: it only logs to the console
onErrorNotifications(n, m) == n

UpdatePriceError(m) ==
    /\ m \in inflight
    /\ m.kind = "update"
    /\ cache' = updatePriceOnErrorCache(cache, m)
    /\ redux' = updatePriceOnErrorRedux(redux, m)
    /\ notifications' = onErrorNotifications(notifications, m)
    /\ UNCHANGED succeeded
    /\ failed' = failed \cup {m}
    /\ UNCHANGED <<resilienceVars, sortVars>>
    /\ UNCHANGED fetching
    /\ invalidated' = invalidateQueries(invalidated \ {m.targetCategory},
                                       ExistingKeys(cache', cacheAll), AllKeys)
    /\ inflight' = Disturb(inflight \ {m})
    /\ UNCHANGED nMut
    /\ UNCHANGED syncVars

\* -- useAddToken

\* onMutate snapshots the category's cached tokens and changes nothing
addTokenOnMutateCache(q, category) == q

addTokenOnMutateRedux(r, category) == r

AddTokenMutate(category) ==
    /\ CanMutate
    /\ nMut' = nMut + 1
    /\ cache' = addTokenOnMutateCache(cache, category)
    /\ redux' = addTokenOnMutateRedux(redux, category)
    /\ inflight' = Overlap(inflight) \cup
          {Mutation(nMut + 1, "add", 0, category, 0,
                    snapshotCategory(cache, category),
                    "null")}
    /\ UNCHANGED <<invalidated, notifications, succeeded, failed>>
    /\ UNCHANGED <<resilienceVars, sortVars>>
    /\ fetching' = cancelQueries(fetching, {category})
    /\ UNCHANGED syncVars

\* the token addTokenApi resolves with
NewToken(m) == generateMockToken(m.category, FirstAddedId + m.mid)

addTokenOnSuccessCache(q, m) ==
    setQueryData(q, m.category, <<NewToken(m)>> \o q[m.category].data)

addTokenOnSuccessRedux(r, m) == addToken(r, m.category, NewToken(m))

AddTokenSuccess(m) ==
    /\ m \in inflight
    /\ m.kind = "add"
    /\ cache' = addTokenOnSuccessCache(cache, m)
    /\ redux' = addTokenOnSuccessRedux(redux, m)
    /\ invalidated' = invalidateQueries(invalidated \ {m.category},
                                       ExistingKeys(cache', FALSE),
                                       {m.category})
    /\ inflight' = Disturb(inflight \ {m})
    /\ succeeded' = succeeded \cup {m}
    /\ UNCHANGED failed
    /\ UNCHANGED <<resilienceVars, sortVars>>
    /\ UNCHANGED fetching
    /\ UNCHANGED <<nMut, notifications>>
    /\ UNCHANGED syncVars

addTokenOnErrorCache(q, m) ==
    IF m.previousTokens[m.category].has
    THEN setQueryData(q, m.category, m.previousTokens[m.category].data)
    ELSE q

AddTokenError(m) ==
    /\ m \in inflight
    /\ m.kind = "add"
    /\ cache' = addTokenOnErrorCache(cache, m)
    /\ redux' = redux
    /\ notifications' = onErrorNotifications(notifications, m)
    /\ UNCHANGED succeeded
    /\ failed' = failed \cup {m}
    /\ UNCHANGED <<resilienceVars, sortVars>>
    /\ UNCHANGED fetching
    /\ invalidated' = invalidateQueries(invalidated \ {m.category},
                                       ExistingKeys(cache', FALSE),
                                       {m.category})
    /\ inflight' = Disturb(inflight \ {m})
    /\ UNCHANGED nMut
    /\ UNCHANGED syncVars

\* -- useRemoveToken

\* an onMutate that leaves the cached tokens as they are
MutRemoveTokenOnMutateCache(q, tokenId, category) == q

removeTokenOnMutateCache(q, tokenId, category) ==
    IF q[category].has
    THEN setQueryData(q, category, FilterOut(q[category].data, tokenId))
    ELSE q

removeTokenOnMutateRedux(r, tokenId, category) ==
    removeToken(r, category, tokenId)

RemoveTokenMutate(tokenId, category) ==
    /\ CanMutate
    /\ nMut' = nMut + 1
    /\ cache' = removeTokenOnMutateCache(cache, tokenId, category)
    /\ redux' = removeTokenOnMutateRedux(redux, tokenId, category)
    /\ invalidated' = IF cache[category].has
                      THEN invalidated \ {category} ELSE invalidated
    /\ inflight' = Overlap(inflight) \cup
          {Mutation(nMut + 1, "remove", tokenId, category, 0,
                    snapshotCategory(cache, category),
                    "null")}
    /\ UNCHANGED <<notifications, succeeded, failed>>
    /\ UNCHANGED <<resilienceVars, sortVars>>
    /\ fetching' = cancelQueries(fetching, {category})
    /\ UNCHANGED syncVars

\* onSuccess is not defined: onSettled alone runs
RemoveTokenSuccess(m) ==
    /\ m \in inflight
    /\ m.kind = "remove"
    /\ invalidated' = invalidateQueries(invalidated,
                                       ExistingKeys(cache, FALSE),
                                       {m.category})
    /\ inflight' = inflight \ {m}
    /\ succeeded' = succeeded \cup {m}
    /\ UNCHANGED failed
    /\ UNCHANGED <<resilienceVars, sortVars>>
    /\ UNCHANGED fetching
    /\ UNCHANGED <<redux, cache, nMut, notifications>>
    /\ UNCHANGED syncVars

removeTokenOnErrorCache(q, m) ==
    IF m.previousTokens[m.category].has
    THEN setQueryData(q, m.category, m.previousTokens[m.category].data)
    ELSE q

removeTokenOnErrorRedux(r, m) ==
    IF /\ m.previousTokens[m.category].has
       /\ HasId(m.previousTokens[m.category].data, m.tokenId)
    THEN addToken(r, m.category,
                  Find(m.previousTokens[m.category].data, m.tokenId))
    ELSE r

RemoveTokenError(m) ==
    /\ m \in inflight
    /\ m.kind = "remove"
    /\ cache' = removeTokenOnErrorCache(cache, m)
    /\ redux' = removeTokenOnErrorRedux(redux, m)
    /\ notifications' = onErrorNotifications(notifications, m)
    /\ UNCHANGED succeeded
    /\ failed' = failed \cup {m}
    /\ UNCHANGED <<resilienceVars, sortVars>>
    /\ UNCHANGED fetching
    /\ invalidated' = invalidateQueries(invalidated \ {m.category},
                                       ExistingKeys(cache', FALSE),
                                       {m.category})
    /\ inflight' = Disturb(inflight \ {m})
    /\ UNCHANGED nMut
    /\ UNCHANGED syncVars

\* the arguments the model issues mutations with
AddCategories == {"new-pairs"}

RemoveChoices ==
    {<<101, "new-pairs">>, <<102, "new-pairs">>, <<201, "final-stretch">>,
     <<101, "migrated">>, <<FirstAddedId + 1, "new-pairs">>}

\* -- useBatchUpdatePrices

\* updates.find(u => u.tokenId === id): the first update of the array for id
FindUpdate(updates, id) ==
    updates[CHOOSE i \in 1..Len(updates) :
               /\ updates[i].tokenId = id
               /\ \A j \in 1..(i - 1) : updates[j].tokenId # id]

\* onSuccess dispatches the whole array to the State Store
batchOnSuccessRedux(r, updates) == batchUpdatePrices(r, updates)

\* onSuccess maps the cached tokens of every category key that has data
batchOnSuccessCache(q, updates) ==
    [c \in Categories |->
        IF q[c].has
        THEN Entry([i \in 1..Len(q[c].data) |->
                 LET token == q[c].data[i]
                 IN IF \E k \in 1..Len(updates) : updates[k].tokenId = token.id
                    THEN LET update == FindUpdate(updates, token.id)
                         IN [token EXCEPT
                                !.price = update.price,
                                !.priceChange1m = update.priceChange1m,
                                !.priceChange5m = update.priceChange5m]
                    ELSE token])
        ELSE q[c]]

\* the arrays the hook is called with: two tokens of two categories, and
\* two updates of one token
BatchUpdateChoices ==
    {<<Delta(101), PriceUpdate(201, DeltaPrice + 1, 0, 9)>>,
     <<Delta(101), PriceUpdate(101, DeltaPrice + 1, 0, 9)>>}

\* mutationFn resolves with the array it was given and onSuccess applies it
BatchUpdatePrices(updates) ==
    /\ CanMutate
    /\ nMut' = nMut + 1
    /\ redux' = batchOnSuccessRedux(redux, updates)
    /\ cache' = batchOnSuccessCache(cache, updates)
    /\ invalidated' = invalidated \ {c \in Categories : cache[c].has}
    /\ inflight' = Disturb(inflight)
    /\ UNCHANGED <<connectionStatus, statusLog, cacheAll, allTokensRef, phase,
                   startDelay, delivered, wsRunning, wsTokens, wsStarts,
                   subscribed, nTicks, notifications, succeeded, failed>>
    /\ UNCHANGED <<resilienceVars, sortVars>>
    /\ UNCHANGED fetching

\* -- usePrefetchTokens

\* what fetchTokensByCategory resolves with: newly generated tokens
FetchedTokens(category) ==
    [i \in 1..CountPerCategory |->
        generateMockToken(category, IdBase(category) + 50 + i)]

PrefetchCategories == {"new-pairs"}

\* queryClient.prefetchQuery starts a fetch for the category key unless one
\* is in flight for it (the cached data has gone stale by then)
Prefetch(category) ==
    /\ CanMutate
    /\ ~\E f \in fetching : f.key = category
    /\ nMut' = nMut + 1
    /\ fetching' = fetching \cup {[key |-> category, fid |-> nMut + 1]}
    /\ UNCHANGED <<redux, cache, invalidated, inflight, notifications,
                   succeeded, failed>>
    /\ UNCHANGED syncVars
    /\ UNCHANGED <<resilienceVars, sortVars>>

\* the fetch resolves and its data is written to the key
FetchResponds(f) ==
    /\ f \in fetching
    /\ fetching' = fetching \ {f}
    /\ cache' = setQueryData(cache, f.key, FetchedTokens(f.key))
    /\ invalidated' = invalidated \ {f.key}
    /\ UNCHANGED <<redux, nMut, notifications, succeeded, failed>>
    /\ inflight' = Disturb(inflight)
    /\ UNCHANGED syncVars
    /\ UNCHANGED <<resilienceVars, sortVars>>

MutationNext ==
    \/ \E tokenId \in FocusIds, newPrice \in PriceChoices :
          UpdatePriceMutate(tokenId, newPrice)
    \/ \E m \in inflight : UpdatePriceSuccess(m)
    \/ \E m \in inflight : UpdatePriceError(m)
    \/ \E category \in AddCategories : AddTokenMutate(category)
    \/ \E m \in inflight : AddTokenSuccess(m)
    \/ \E m \in inflight : AddTokenError(m)
    \/ \E a \in RemoveChoices : RemoveTokenMutate(a[1], a[2])
    \/ \E m \in inflight : RemoveTokenSuccess(m)
    \/ \E m \in inflight : RemoveTokenError(m)
    \/ \E updates \in BatchUpdateChoices : BatchUpdatePrices(updates)
    \/ \E category \in PrefetchCategories : Prefetch(category)
    \/ \E f \in fetching : FetchResponds(f)

Next == SyncNext \/ MutationNext

Spec == Init /\ [][Next]_vars

\* ------------------------------------------------------------ Resilience Manager: useErrorHandler
\* Delays are kept in units of 1 / DelayScale ms, so that the jitter
\* delay * 0.1 * Math.random() is an integer: Math.random() is
\* random / RandomSteps with random in 0 .. RandomSteps - 1.

RandomSteps == 4
Randoms == 0..(RandomSteps - 1)
DelayScale == 10 * RandomSteps

RECURSIVE Pow2(_)
Pow2(n) == IF n = 0 THEN 1 ELSE 2 * Pow2(n - 1)

\* a calculateDelay that takes the jitter off the delay
MutCalculateDelay(o, attempt, random) ==
    LET delay == Min(o.baseDelay * Pow2(attempt), o.maxDelay)
    IN delay * DelayScale - delay * random

calculateDelay(o, attempt, random) ==
    LET delay == Min(o.baseDelay * Pow2(attempt), o.maxDelay)
        jitter == delay * random
    IN delay * DelayScale + jitter

\* a slice that keeps the whole queue
MutLastFour(n) == n

\* prev.slice(-4)
LastFour(n) ==
    IF Len(n) <= 4 THEN n ELSE SubSeq(n, Len(n) - 3, Len(n))

addNotification(n, id, message, type) ==
    Append(LastFour(n), [id |-> id, message |-> message, type |-> type])

\* a dismiss that drops the oldest notification, whatever the id
MutDismissNotification(n, id) == IF n = <<>> THEN n ELSE Tail(n)

dismissNotification(n, id) == SelectSeq(n, LAMBDA x : x.id # id)

clearNotifications(n) == <<>>

\* one entry of retryLog
Ev(ev, n, d) == [ev |-> ev, n |-> n, d |-> d]

\* the entries of a log with the given name, in order
Events(log, ev) == SelectSeq(log, LAMBDA x : x.ev = ev)

CountEv(log, ev) == Len(Events(log, ev))

\* the number of steps the model follows the wrapper for: calls of
\* handleError from outside, retry attempts and calls of resetError
MaxRetryOps == 5

RetryOps(log) ==
    CountEv(log, "call") + CountEv(log, "retry") + CountEv(log, "reset")

\* the randoms the retry timers' delays are drawn with
RetryRandoms == {0, RandomSteps - 1}

\* an addNotification that arms no auto-dismiss timer
MutNotify(message, type) ==
    /\ notifications' = addNotification(notifications, nNotified + 1,
                                        message, type)
    /\ nNotified' = nNotified + 1
    /\ expiryTimers' = expiryTimers

\* addNotification as handleError and the retry timer call it: the
\* notification joins the queue and its auto-dismiss timer is armed
Notify(message, type) ==
    /\ notifications' = addNotification(notifications, nNotified + 1,
                                        message, type)
    /\ nNotified' = nNotified + 1
    /\ expiryTimers' = Append(expiryTimers, nNotified + 1)

\* the body of handleError in the closure of a render whose retryCount was
\* r; log is the history up to the call. retryFn is given with shouldRetry.
handleError(r, shouldRetry, random, log) ==
    /\ error' = "failed"
    /\ Notify("failed", "error")
    /\ IF shouldRetry /\ r < options.maxRetries
       THEN LET id == CountEv(log, "schedule") + 1
            IN /\ isRetrying' = TRUE
               /\ retryTimers' = retryTimers \cup {[id |-> id, r |-> r]}
               /\ retryTimeoutRef' = id
               /\ retryLog' = Append(log,
                     Ev("schedule", r, calculateDelay(options, r, random)))
       ELSE /\ UNCHANGED <<isRetrying, retryTimers, retryTimeoutRef>>
            /\ retryLog' = IF r >= options.maxRetries
                           THEN Append(log, Ev("maxReached", r, 0))
                           ELSE log

retryFrame == <<redux, connectionStatus, statusLog, cache, cacheAll,
                invalidated, allTokensRef, phase, startDelay, delivered,
                wsRunning, wsTokens, wsStarts, subscribed, inflight, nMut,
                nTicks, succeeded, failed, fetching, options, delayVars,
                recoveryVars, sortVars>>

\* a component calls handleError of the latest render
HandleErrorCall(shouldRetry, random) ==
    /\ RetryOps(retryLog) < MaxRetryOps
    /\ handleError(retryCount, shouldRetry, random,
                   Append(retryLog, Ev("call", retryCount, 0)))
    /\ UNCHANGED <<retryCount, retryRunning>>
    /\ UNCHANGED retryFrame

\* a retry timer fires: up to the await of retryFn
RetryTimerFires(t) ==
    /\ t \in retryTimers
    /\ RetryOps(retryLog) < MaxRetryOps
    /\ retryTimers' = retryTimers \ {t}
    /\ retryCount' = retryCount + 1
    /\ retryRunning' = retryRunning \cup {t}
    /\ retryLog' = Append(retryLog, Ev("retry", t.r + 1, 0))
    /\ UNCHANGED <<error, isRetrying, retryTimeoutRef, notifications,
                   nNotified, expiryTimers>>
    /\ UNCHANGED retryFrame

\* retryFn resolves
RetrySucceeds(t) ==
    /\ t \in retryRunning
    /\ retryRunning' = retryRunning \ {t}
    /\ retryCount' = 0
    /\ isRetrying' = FALSE
    /\ error' = "null"
    /\ Notify("Connection restored", "info")
    /\ retryLog' = Append(retryLog, Ev("success", t.r + 1, 0))
    /\ UNCHANGED <<retryTimeoutRef, retryTimers>>
    /\ UNCHANGED retryFrame

\* retryFn rejects: the catch block of the timer callback, in the closure
\* that armed the timer
RetryFails(t, random) ==
    /\ t \in retryRunning
    /\ retryRunning' = retryRunning \ {t}
    /\ IF t.r + 1 >= options.maxRetries
       THEN /\ isRetrying' = FALSE
            /\ Notify("Maximum retries reached. Please refresh the page.",
                      "error")
            /\ retryLog' = retryLog \o <<Ev("fail", t.r + 1, 0),
                                         Ev("maxReached", t.r + 1, 0)>>
            /\ UNCHANGED <<error, retryTimeoutRef, retryTimers>>
       ELSE handleError(t.r, TRUE, random,
                        Append(retryLog, Ev("fail", t.r + 1, 0)))
    /\ UNCHANGED retryCount
    /\ UNCHANGED retryFrame

resetError ==
    /\ RetryOps(retryLog) < MaxRetryOps
    /\ error' = "null"
    /\ retryCount' = 0
    /\ isRetrying' = FALSE
    /\ retryTimers' = {t \in retryTimers : t.id # retryTimeoutRef}
    /\ retryTimeoutRef' = 0
    /\ retryLog' = Append(retryLog, Ev("reset", 0, 0))
    /\ UNCHANGED <<retryRunning, notifications, nNotified, expiryTimers>>
    /\ UNCHANGED retryFrame

RetryNext ==
    \/ \E shouldRetry \in BOOLEAN, random \in RetryRandoms :
          HandleErrorCall(shouldRetry, random)
    \/ \E t \in retryTimers : RetryTimerFires(t)
    \/ \E t \in retryRunning : RetrySucceeds(t)
    \/ \E t \in retryRunning, random \in RetryRandoms : RetryFails(t, random)
    \/ resetError

\* the values of maxRetries the wrapper is followed with
OptionChoices ==
    {[DefaultOptions EXCEPT !.maxRetries = m] : m \in 1..DefaultMaxRetries}

RetryInit ==
    /\ TokenInit
    /\ options \in OptionChoices
    /\ RetryIdle
    /\ DelayIdle
    /\ RecoveryIdle
    /\ SortIdle

RetrySpec == RetryInit /\ [][RetryNext]_vars

\* -- calculateDelay on its own: the options, the attempt index and the
\* random are drawn at the start, one step applies the function

MaxAttemptIndex == 6

DelayOptionChoices ==
    {[DefaultOptions EXCEPT !.baseDelay = b, !.maxDelay = m] :
        b \in {DefaultBaseDelay, 250}, m \in {DefaultMaxDelay, 3000}}

DelayInit ==
    /\ TokenInit
    /\ RetryIdle
    /\ RecoveryIdle
    /\ SortIdle
    /\ options \in DelayOptionChoices
    /\ delayAttempt \in 0..MaxAttemptIndex
    /\ delayRandom \in Randoms
    /\ delayResult = -1

CalculateDelay ==
    /\ delayResult = -1
    /\ delayResult' = calculateDelay(options, delayAttempt, delayRandom)
    /\ UNCHANGED <<tokenVars, options, retryVars, delayAttempt, delayRandom,
                   recoveryVars, sortVars>>

DelayNext == CalculateDelay

DelaySpec == DelayInit /\ [][DelayNext]_vars

\* -- the notification queue on its own: notifications are added, dismissed
\* by id and cleared through the functions the hook returns, and each
\* notification's auto-dismiss timer fires 5 s after it was added, so the
\* timers fire in the order they were armed

MaxNotifications == 6

\* the message and type addNotification is called with
NotificationKinds == {<<"failed", "error">>}

notificationFrame == <<redux, statusLog, cache, cacheAll, invalidated,
                       allTokensRef, phase, startDelay, delivered, wsRunning,
                       wsTokens, wsStarts, subscribed, inflight, nMut, nTicks,
                       succeeded, failed, options, error, retryCount, isRetrying,
                       retryTimeoutRef, retryTimers, retryRunning, retryLog,
                       delayVars, recoveryVars, sortVars, fetching>>

AddNotification(message, type) ==
    /\ nNotified < MaxNotifications
    /\ Notify(message, type)
    /\ UNCHANGED connectionStatus
    /\ UNCHANGED notificationFrame

\* dismissNotification is called with an id that was given out
DismissNotification(id) ==
    /\ id \in 1..nNotified
    /\ notifications' = dismissNotification(notifications, id)
    /\ UNCHANGED <<connectionStatus, nNotified, expiryTimers>>
    /\ UNCHANGED notificationFrame

ClearNotifications ==
    /\ notifications' = clearNotifications(notifications)
    /\ UNCHANGED <<connectionStatus, nNotified, expiryTimers>>
    /\ UNCHANGED notificationFrame

\* the oldest armed auto-dismiss timer fires
ExpiryFires ==
    /\ expiryTimers # <<>>
    /\ notifications' = dismissNotification(notifications, Head(expiryTimers))
    /\ expiryTimers' = Tail(expiryTimers)
    /\ UNCHANGED <<connectionStatus, nNotified>>
    /\ UNCHANGED notificationFrame

handleConnectionChange(status) ==
    /\ nNotified < MaxNotifications
    /\ connectionStatus' = status
    /\ IF status = "error"
       THEN Notify("Connection error. Attempting to reconnect...", "error")
       ELSE IF status = "disconnected"
       THEN Notify("Disconnected from server", "warning")
       ELSE IF status = "connected"
       THEN /\ notifications' = clearNotifications(notifications)
            /\ UNCHANGED <<nNotified, expiryTimers>>
       ELSE UNCHANGED <<notifications, nNotified, expiryTimers>>
    /\ UNCHANGED notificationFrame

NotificationNext ==
    \/ \E k \in NotificationKinds : AddNotification(k[1], k[2])
    \/ \E id \in 1..MaxNotifications : DismissNotification(id)
    \/ ClearNotifications
    \/ ExpiryFires
    \/ \E status \in {"connecting", "connected", "disconnected", "error"} :
          handleConnectionChange(status)

NotificationSpec == Init /\ [][NotificationNext]_vars

\* every armed timer fires: setTimeout callbacks are run by the event loop
NotificationLiveSpec == NotificationSpec /\ WF_vars(ExpiryFires)

\* ------------------------------------------------------------ Resilience Manager: useConnectionRecovery
\* A change of connectionStatus or retryAttempt re-renders the hook, which
\* runs the effect's cleanup and the effect again; that is part of the
\* handler that made the change.

\* the default of useConnectionRecovery's maxRetries
RecoveryMaxRetries == 5

\* the number of external status signals the model follows
MaxSignals == 2

Statuses == {"connecting", "connected", "disconnected", "error"}

\* an effect that arms the interval whatever the status
MutShouldRecover(status) == TRUE

\* the effect arms the probe interval
shouldRecover(status) == status = "disconnected" \/ status = "error"

\* an interval callback that never gives up
MutGivesUp(a) == FALSE

\* the interval callback clears the interval and returns
givesUp(a) == a >= RecoveryMaxRetries

hasExhaustedRetries == retryAttempt >= RecoveryMaxRetries

\* the armed interval after the effect's cleanup and the effect have run
\* with the given status and retryAttempt
runEffect(status, a) == IF shouldRecover(status) THEN a ELSE -1

\* the armed interval after a handler: the effect runs again when the hook
\* is mounted and one of its dependencies has changed
effectAfter(interval) ==
    IF recoveryMounted
          /\ (connectionStatus' # connectionStatus
                \/ retryAttempt' # retryAttempt)
    THEN runEffect(connectionStatus', retryAttempt')
    ELSE interval

setConnectionStatus(status) == connectionStatus' = status

recoveryFrame == <<redux, statusLog, cache, cacheAll, invalidated, allTokensRef, phase,
                   startDelay, delivered, wsRunning, wsTokens, wsStarts,
                   subscribed, inflight, nMut, nTicks, notifications,
                   succeeded, failed, fetching, options, retryVars, delayVars,
                   sortVars>>

RecoveryMount ==
    /\ ~recoveryMounted
    /\ nProbes = 0 /\ nSignals = 0
    /\ recoveryMounted' = TRUE
    /\ probeInterval' = runEffect(connectionStatus, retryAttempt)
    /\ UNCHANGED <<connectionStatus, retryAttempt, probing,
                   nProbes, nSignals, failStreak>>
    /\ UNCHANGED recoveryFrame

\* the interval ticks: its callback up to the await of connectFn
ProbeTick ==
    /\ probeInterval # -1
    /\ UNCHANGED <<recoveryMounted, retryAttempt, nSignals, failStreak>>
    /\ IF givesUp(probeInterval)
       THEN /\ probeInterval' = -1
            /\ UNCHANGED <<connectionStatus, probing, nProbes>>
       ELSE /\ setConnectionStatus("connecting")
            /\ probing' = probing + 1
            /\ nProbes' = nProbes + 1
            /\ probeInterval' = effectAfter(probeInterval)
    /\ UNCHANGED recoveryFrame

\* connectFn resolves
ProbeSucceeds ==
    /\ probing > 0
    /\ probing' = probing - 1
    /\ setConnectionStatus("connected")
    /\ retryAttempt' = IF recoveryMounted THEN 0 ELSE retryAttempt
    /\ probeInterval' = effectAfter(-1)
    /\ failStreak' = 0
    /\ UNCHANGED <<recoveryMounted, nProbes, nSignals>>
    /\ UNCHANGED recoveryFrame

\* a failure that counts twice
MutNextAttempt(prev) == prev + 2

\* setRetryAttempt((prev) => prev + 1)
nextAttempt(prev) == prev + 1

\* connectFn rejects
ProbeFails ==
    /\ probing > 0
    /\ probing' = probing - 1
    /\ retryAttempt' = IF recoveryMounted THEN nextAttempt(retryAttempt)
                       ELSE retryAttempt
    /\ setConnectionStatus("error")
    /\ probeInterval' = effectAfter(probeInterval)
    /\ failStreak' = failStreak + 1
    /\ UNCHANGED <<recoveryMounted, nProbes, nSignals>>
    /\ UNCHANGED recoveryFrame

\* another part of the application writes connectionStatus
ExternalStatus(status) ==
    /\ recoveryMounted
    /\ nSignals < MaxSignals
    /\ nSignals' = nSignals + 1
    /\ setConnectionStatus(status)
    /\ UNCHANGED <<recoveryMounted, retryAttempt, probing, nProbes,
                   failStreak>>
    /\ probeInterval' = effectAfter(probeInterval)
    /\ UNCHANGED recoveryFrame

\* unmount: the effect's cleanup
RecoveryUnmount ==
    /\ recoveryMounted
    /\ recoveryMounted' = FALSE
    /\ probeInterval' = -1
    /\ UNCHANGED <<connectionStatus, retryAttempt, probing,
                   nProbes, nSignals, failStreak>>
    /\ UNCHANGED recoveryFrame

RecoveryNext ==
    \/ RecoveryMount
    \/ ProbeTick
    \/ ProbeSucceeds
    \/ ProbeFails
    \/ \E status \in Statuses : ExternalStatus(status)
    \/ RecoveryUnmount

RecoverySpec == Init /\ [][RecoveryNext]_vars

\* ------------------------------------------------------------ Sort/Selection Engine
\* selectSortedTokensByCategory on its own: the State Store holds a
\* collection and a sort config per category, drawn at the start, and each
\* step is one evaluation of the selector's result function (an evaluation
\* answered from the memoized result computes nothing and is no step).

MaxSortLen == 3

SortOptions ==
    {"price", "priceChange1m", "priceChange5m", "priceChange1h", "marketCap",
     "liquidity", "volume24h", "createdAt", "holders"}
SortOrders == {"asc", "desc"}

\* what the tokens' fields are built from
SortValues == 0..2

\* the createdAt strings, and new Date(createdAt).getTime() in seconds
CreatedAt(v) == CASE v = 0 -> "2024-01-02T00:00:00.000Z"
                  [] v = 1 -> "2023-12-31T00:00:00.000Z"
                  [] v = 2 -> "2024-01-01T00:00:00.000Z"

DateGetTime(createdAt) ==
    CASE createdAt = "2023-12-31T00:00:00.000Z" -> 1703980800
      [] createdAt = "2024-01-01T00:00:00.000Z" -> 1704067200
      [] createdAt = "2024-01-02T00:00:00.000Z" -> 1704153600

\* a Token with the fields the comparator reads; v decides them, each in
\* its own way, so that the nine keys order and tie the tokens differently
SortToken(category, i, v) ==
    [id |-> IdBase(category) + i, category |-> category,
     price |-> 10 + v,
     priceChange1m |-> v - 1,
     priceChange5m |-> 1 - v,
     priceChange1h |-> (v * v) % 3,
     marketCap |-> 100 * v,
     liquidity |-> 5 - v,
     volume24h |-> v \div 2,
     createdAt |-> CreatedAt(v),
     holders |-> (v + 1) % 3]

\* the comparator createCompareFn(sortBy, sortOrder) returns, applied to a, b
MutCreateCompareFn(sortBy, sortOrder, a, b) ==
    CASE sortBy = "price" -> a.price - b.price
      [] sortBy = "priceChange1m" -> a.priceChange1m - b.priceChange1m
      [] sortBy = "priceChange5m" -> a.priceChange5m - b.priceChange5m
      [] sortBy = "priceChange1h" -> a.priceChange1h - b.priceChange1h
      [] sortBy = "marketCap" -> a.marketCap - b.marketCap
      [] sortBy = "liquidity" -> a.liquidity - b.liquidity
      [] sortBy = "volume24h" -> a.volume24h - b.volume24h
      [] sortBy = "createdAt" ->
            DateGetTime(a.createdAt) - DateGetTime(b.createdAt)
      [] sortBy = "holders" -> a.holders - b.holders
      [] OTHER -> 0

createCompareFn(sortBy, sortOrder, a, b) ==
    LET comparison ==
          CASE sortBy = "price" -> a.price - b.price
            [] sortBy = "priceChange1m" -> a.priceChange1m - b.priceChange1m
            [] sortBy = "priceChange5m" -> a.priceChange5m - b.priceChange5m
            [] sortBy = "priceChange1h" -> a.priceChange1h - b.priceChange1h
            [] sortBy = "marketCap" -> a.marketCap - b.marketCap
            [] sortBy = "liquidity" -> a.liquidity - b.liquidity
            [] sortBy = "volume24h" -> a.volume24h - b.volume24h
            [] sortBy = "createdAt" ->
                  DateGetTime(a.createdAt) - DateGetTime(b.createdAt)
            [] sortBy = "holders" -> a.holders - b.holders
            [] OTHER -> 0
    IN IF sortOrder = "asc" THEN comparison ELSE -comparison

\* Array.prototype.sort is a stable sort: each element is put after the
\* elements before it that do not compare greater
RECURSIVE InsertSorted(_, _, _, _)
InsertSorted(sorted, x, sortBy, sortOrder) ==
    IF sorted = <<>> THEN <<x>>
    ELSE LET last == sorted[Len(sorted)]
         IN IF createCompareFn(sortBy, sortOrder, last, x) > 0
            THEN InsertSorted(SubSeq(sorted, 1, Len(sorted) - 1), x,
                              sortBy, sortOrder) \o <<last>>
            ELSE sorted \o <<x>>

RECURSIVE SortFrom(_, _, _, _)
SortFrom(sorted, rest, sortBy, sortOrder) ==
    IF rest = <<>> THEN sorted
    ELSE SortFrom(InsertSorted(sorted, Head(rest), sortBy, sortOrder),
                  Tail(rest), sortBy, sortOrder)

Reverse(s) == [i \in 1..Len(s) |-> s[Len(s) + 1 - i]]

\* a sort that takes the elements from the last to the first
MutStableSort(s, sortBy, sortOrder) == SortFrom(<<>>, Reverse(s), sortBy, sortOrder)

StableSort(s, sortBy, sortOrder) == SortFrom(<<>>, s, sortBy, sortOrder)

\* no copy: the array itself
MutSpread(h, ref, fresh) == [heap |-> h, ref |-> ref]

\* [...tokenList]: a new array with the elements of the array at ref
spread(h, ref, fresh) == [heap |-> [h EXCEPT ![fresh] = h[ref]], ref |-> fresh]

\* array.sort(compareFn) sorts the array at ref in place and returns it
arraySort(h, ref, sortBy, sortOrder) ==
    [heap |-> [h EXCEPT ![ref] = StableSort(@, sortBy, sortOrder)], ref |-> ref]

\* the selector's result function: the arrays after it ran and the array
\* it returns
selectSortedTokensByCategory(h, config, category, fresh) ==
    LET tokenList == SliceRef(category)
        copy == spread(h, tokenList, fresh)
    IN arraySort(copy.heap, copy.ref,
                 config[category].sortBy, config[category].sortOrder)

sortFrame == <<tokenVars, resilienceVars, sortConfig, sliceVersion>>

\* createSelector's memoization: the result function runs again unless the
\* input selectors give what they gave for a memoized call, and they give
\* state.tokens (the slice object itself) and the category
MemoHits(entries, version, category) ==
    {e \in entries : e.version = version /\ e.category = category}

\* what the memoizer keeps after a computation: the new entry, with or
\* without the entries of the same slice object (a memoizer of size one
\* keeps the latest alone); entries of an earlier slice object cannot be
\* found again
MemoAfter(entries, e) ==
    {{e}, {e} \cup {e0 \in entries : e0.version = e.version}}

\* selectSortedTokensByCategory(state, category)
SelectSorted(category) ==
    /\ nSelects < MaxSelects
    /\ nSelects' = nSelects + 1
    /\ LET hits == MemoHits(memo, sliceVersion, category)
       IN IF hits # {}
          THEN /\ sortResult' = (CHOOSE e \in hits : TRUE).result
               /\ UNCHANGED <<arrays, memo>>
          ELSE LET r == selectSortedTokensByCategory(
                           arrays, sortConfig, category,
                           FreshRef(nSelects + 1))
                   result == Result(category, r.ref, sortConfig[category],
                                    arrays[SliceRef(category)])
               IN /\ arrays' = r.heap
                  /\ sortResult' = result
                  /\ memo' \in MemoAfter(memo,
                         [version |-> sliceVersion, category |-> category,
                          result |-> result])
    /\ UNCHANGED sortFrame

SortNext == \E category \in Categories : SelectSorted(category)

\* the collections the store may hold: up to MaxSortLen tokens per
\* category, in arrival order, their fields built from any values
SortInputs == UNION {[1..n -> SortValues] : n \in 0..MaxSortLen}

\* each category's tokens get values of their own out of the input's
Twist(category, v) == CASE category = "new-pairs" -> v
                        [] category = "final-stretch" -> 2 - v
                        [] category = "migrated" -> (v + 1) % 3

SortCollection(category, values) ==
    [i \in 1..Len(values) |-> SortToken(category, i, Twist(category, values[i]))]

SortInit ==
    /\ TokenInit
    /\ options = DefaultOptions
    /\ RetryIdle
    /\ DelayIdle
    /\ RecoveryIdle
    /\ \E values \in SortInputs :
          arrays = [ref \in ArrayRefs |->
                       IF \E c \in Categories : SliceRef(c) = ref
                       THEN SortCollection(
                              CHOOSE c \in Categories : SliceRef(c) = ref,
                              values)
                       ELSE <<>>]
    /\ \E sortBy \in SortOptions, sortOrder \in SortOrders :
          sortConfig = [c \in Categories |->
                           [sortBy |-> sortBy, sortOrder |-> sortOrder]]
    /\ sortResult = NoResult
    /\ nSelects = 0
    /\ sliceVersion = 0
    /\ memo = {}

SortSpec == SortInit /\ [][SortNext]_vars

\* -- the selector between changes of the State Store: a reducer of the
\* tokens slice that changes a field leaves a new slice object, in which
\* the fields it did not touch are the objects they were

MaxDispatches == 1

\* dispatch(setConnectionStatus(status))
DispatchConnectionStatus(status) ==
    /\ sliceVersion < MaxDispatches
    /\ status # connectionStatus
    /\ setConnectionStatus(status)
    /\ sliceVersion' = sliceVersion + 1
    /\ UNCHANGED <<redux, statusLog, cache, cacheAll, invalidated,
                   allTokensRef, phase, startDelay, delivered, wsRunning,
                   wsTokens, wsStarts, subscribed, inflight, nMut, nTicks,
                   notifications, succeeded, failed, fetching, resilienceVars, arrays,
                   sortConfig, sortResult, nSelects, memo>>

\* dispatch(setSortConfig({category, sortBy, sortOrder})), here with the
\* category's sortBy and the other direction
DispatchSortOrder(category, sortOrder) ==
    /\ sliceVersion < MaxDispatches
    /\ sortOrder # sortConfig[category].sortOrder
    /\ sortConfig' = [sortConfig EXCEPT ![category].sortOrder = sortOrder]
    /\ sliceVersion' = sliceVersion + 1
    /\ UNCHANGED <<tokenVars, resilienceVars, arrays, sortResult, nSelects,
                   memo>>

MemoNext ==
    \/ \E category \in Categories : SelectSorted(category)
    \/ \E status \in Statuses : DispatchConnectionStatus(status)
    \/ \E category \in Categories, sortOrder \in SortOrders :
          DispatchSortOrder(category, sortOrder)

\* the store holds two tokens per category and any sort config
MemoInit ==
    /\ TokenInit
    /\ options = DefaultOptions
    /\ RetryIdle
    /\ DelayIdle
    /\ RecoveryIdle
    /\ arrays = [ref \in ArrayRefs |->
                    IF \E c \in Categories : SliceRef(c) = ref
                    THEN SortCollection(
                           CHOOSE c \in Categories : SliceRef(c) = ref,
                           <<1, 0>>)
                    ELSE <<>>]
    /\ \E sortBy \in SortOptions, sortOrder \in SortOrders :
          sortConfig = [c \in Categories |->
                           [sortBy |-> sortBy, sortOrder |-> sortOrder]]
    /\ sortResult = NoResult
    /\ nSelects = 0
    /\ sliceVersion = 0
    /\ memo = {}

MemoSpec == MemoInit /\ [][MemoNext]_vars

\* ------------------------------------------------------------ properties

AllAgree == \A c \in Categories : Agree(redux, cache, c)

\* the failure handler of a pending mutation runs
ErrorStep(m) ==
    UpdatePriceError(m) \/ AddTokenError(m) \/ RemoveTokenError(m)

\* the category a pending mutation works on
MutationCategory(m) ==
    IF m.kind = "update" THEN m.targetCategory ELSE m.category

SameCollections(r, q, r0, q0) ==
    \A c \in Categories :
        r[c] = r0[c] /\ CacheTokens(q, c) = CacheTokens(q0, c)

\* C1: when the write of updatePrice, addToken or removeToken fails, no
\* other mutation was pending with it and no other handler changed a store
\* while it was pending, then after the failure handler both stores hold, for every category, the collection
\* they held when the mutation began (same tokens, values and order).
C1_RollbackRestoresSnapshot ==
    [][\A m \in inflight :
          (ErrorStep(m) /\ ~m.overlapped /\ m.interleaved = {})
             => SameCollections(redux', cache', m.preRedux, m.preCache)]_vars

\* C2: every warm-up batch handler leaves the two stores with the same
\* collection for its category; every live-delta handler leaves equal every
\* category that was equal when it began; and as long as only batches and
\* deltas have been applied, every observable state has the two stores equal.
C2_SyncWritesBothStores ==
    /\ [](nMut = 0 => AllAgree)
    /\ [][/\ \A c \in Categories : OnBatch(c) => Agree(redux', cache', c)
          /\ \A c \in Categories :
                ((\E updates \in DeltaBatches : OnPriceUpdates(updates))
                    /\ Agree(redux, cache, c))
                 => Agree(redux', cache', c)]_vars

C2_Witness ==
    /\ nTicks > 0
    /\ nMut = 0
    /\ HasId(redux["new-pairs"], 101)
    /\ Find(redux["new-pairs"], 101).price = DeltaPrice
    /\ Find(CacheTokens(cache, "new-pairs"), 101).price = DeltaPrice

\* C3: when a mutation's write fails after other handlers (live deltas,
\* other mutations) changed its category while it was pending, the two
\* stores hold the same collection for that category after the failure
\* handler. Stated for a category on which the stores agreed when the
\* mutation began and agree, but for the mutation's own token, when the
\* failure handler starts.
C3_RollbackKeepsStoresEqual ==
    [][\A m \in inflight :
          LET c == MutationCategory(m)
          IN (/\ ErrorStep(m)
              /\ c \in Categories
              /\ c \in m.interleaved
              /\ Agree(m.preRedux, m.preCache, c)
              /\ FilterOut(redux[c], m.tokenId)
                    = FilterOut(CacheTokens(cache, c), m.tokenId))
             => Agree(redux', cache', c)]_vars

\* C4: after teardown no warm-up batch handler runs and the live feed is
\* not started.
C4_NoBatchAfterTeardown ==
    [][phase = "unmounted"
          => /\ \A c \in Categories : ~OnBatch(c)
             /\ (wsRunning' => wsRunning)]_vars

IsPrefix(s, t) == Len(s) <= Len(t) /\ \A i \in 1..Len(s) : s[i] = t[i]

WarmupDone == \A c \in Categories : delivered[c] = NumBatches

\* C5: the values written to connectionStatus in a cold start are
\* connecting, then connected, and nothing else: connecting is written
\* before the first batch is applied, and once every batch is delivered the
\* sequence written is exactly [connecting, connected].
C5_StatusSequence ==
    /\ IsPrefix(statusLog, <<"connecting", "connected">>)
    /\ (\E c \in Categories : delivered[c] > 0) => Len(statusLog) >= 1
    /\ WarmupDone => statusLog = <<"connecting", "connected">>

C5_Witness ==
    /\ WarmupDone
    /\ connectionStatus = "connected"
    /\ statusLog = <<"connecting", "connected">>

RECURSIVE CountOf(_, _)
CountOf(s, x) ==
    IF s = <<>> THEN 0
    ELSE (IF Head(s) = x THEN 1 ELSE 0) + CountOf(Tail(s), x)

\* C6: connected is written and the live feed started at most once, both in
\* the same handler, and that has happened exactly when the tokens of the
\* completed categories number countPerCategory * 3, which is when every
\* category has delivered its complete batch: never before.
C6_ConnectedOnceAtTarget ==
    /\ wsStarts <= 1
    /\ CountOf(statusLog, "connected") = wsStarts
    /\ wsStarts = 1 <=> RefLength(allTokensRef) >= CountPerCategory * CategoryCount
    /\ wsStarts = 1 <=> \A c \in Categories : IsComplete(delivered[c])

C6_Witness ==
    /\ wsStarts = 1
    /\ wsRunning
    /\ connectionStatus = "connected"
    /\ RefLength(allTokensRef) = CountPerCategory * CategoryCount

\* C7: each batch handler leaves both stores with the same number of
\* tokens for its category: countPerCategory when the batch is the complete
\* one, fewer on every earlier batch; the complete batch is the last one of
\* its category and no batch follows it.
C7_CountAtCompletion ==
    /\ [](\A c \in Categories : delivered[c] <= NumBatches)
    /\ [][\A c \in Categories :
            OnBatch(c) =>
              LET k == delivered'[c]
                  n == Len(redux'[c])
              IN /\ n = Len(CacheTokens(cache', c))
                 /\ IsComplete(k) => n = CountPerCategory
                 /\ ~IsComplete(k) => n < CountPerCategory
                 /\ IsComplete(k) <=> k = NumBatches]_vars

C7_Witness ==
    \E c \in Categories :
        /\ delivered[c] = NumBatches
        /\ IsComplete(delivered[c])
        /\ NumBatches > 1
        /\ Len(redux[c]) = CountPerCategory
        /\ Len(CacheTokens(cache, c)) = CountPerCategory

\* tokenId was in no category of either store when m began
UnknownToken(m) ==
    \A c \in Categories :
        ~HasId(m.preRedux[c], m.tokenId)
           /\ ~HasId(CacheTokens(m.preCache, c), m.tokenId)

EndsWithOneMoreError(n, n0) ==
    /\ Len(n) = Len(n0) + 1
    /\ \A i \in 1..Len(n0) : n[i] = n0[i]
    /\ n[Len(n)].type = "error"

\* C8: an updatePrice for a tokenId that is in no category, once settled,
\* has left both stores as they were and has appended exactly one error
\* notification to the queue.
C8_UnknownTokenNotifies ==
    [][\A m \in inflight :
          (/\ m.kind = "update"
           /\ UnknownToken(m)
           /\ ~m.overlapped
           /\ m.interleaved = {}
           /\ (UpdatePriceSuccess(m) \/ UpdatePriceError(m)))
          => /\ SameCollections(redux', cache', m.preRedux, m.preCache)
             /\ EndsWithOneMoreError(notifications', m.preNotifications)]_vars

\* C9: the failure handler of updatePrice, addToken or removeToken appends
\* exactly one error notification to the queue.
C9_FailureNotifies ==
    [][\A m \in inflight :
          ErrorStep(m) => EndsWithOneMoreError(notifications', notifications)]_vars

ShowsPrice(s, tokenId, price) ==
    \A i \in 1..Len(s) : s[i].id = tokenId => s[i].price = price

\* C10: when onMutate has run, before the write settles, both stores show
\* the mutation's effect: the new price of an updated token, the absence of
\* a removed token, one more token in the category of an added one.
C10_OptimisticInBothStores ==
    [][/\ \A tokenId \in FocusIds, newPrice \in PriceChoices :
            UpdatePriceMutate(tokenId, newPrice) =>
               \A c \in Categories :
                  /\ ShowsPrice(redux'[c], tokenId, newPrice)
                  /\ ShowsPrice(CacheTokens(cache', c), tokenId, newPrice)
       /\ \A a \in RemoveChoices :
            RemoveTokenMutate(a[1], a[2]) =>
               /\ ~HasId(redux'[a[2]], a[1])
               /\ ~HasId(CacheTokens(cache', a[2]), a[1])
       /\ \A category \in AddCategories :
            AddTokenMutate(category) =>
               /\ Len(redux'[category]) = Len(redux[category]) + 1
               /\ Len(CacheTokens(cache', category))
                     = Len(CacheTokens(cache, category)) + 1]_vars

\* the pending mutations a step adds: the mutation whose onMutate ran
Issued == inflight' \ {m \in inflight' : \E m0 \in inflight : m0.mid = m.mid}

\* the snapshot shows the token at the given price
SnapshotShowsPrice(snap, c, tokenId, price) ==
    /\ snap[c].has
    /\ HasId(snap[c].data, tokenId)
    /\ Find(snap[c].data, tokenId).price = price

\* C11: when a mutation is issued on a token (in the same category) while an earlier updatePrice
\* or removeToken of the same token is still pending, and no other handler
\* changed that category since the earlier mutation's optimistic step, the
\* snapshot the new mutation takes holds the earlier mutation's optimistic
\* value: the token at the earlier mutation's new price, or, after an
\* optimistic removal, no such token.
C11_SecondSnapshotIsOptimistic ==
    [][\A m1 \in inflight : \A m2 \in Issued :
          (/\ m2.kind \in {"update", "remove"}
           /\ m2.tokenId = m1.tokenId
           /\ MutationCategory(m1) \in Categories
           /\ m2.kind = "remove" => m2.category = MutationCategory(m1)
           /\ MutationCategory(m1) \notin m1.interleaved
           /\ HasId(CacheTokens(m1.preCache, MutationCategory(m1)), m1.tokenId))
          => LET c == MutationCategory(m1)
             IN /\ m1.kind = "update"
                      => SnapshotShowsPrice(m2.previousTokens, c,
                                            m1.tokenId, m1.newPrice)
                /\ m1.kind = "remove"
                      => /\ m2.previousTokens[c].has
                         /\ ~HasId(m2.previousTokens[c].data, m1.tokenId)]_vars

C11_Witness ==
    \E m1 \in inflight, m2 \in inflight :
        /\ m1.mid < m2.mid
        /\ m1.kind = "update" /\ m2.kind = "update"
        /\ m1.tokenId = m2.tokenId
        /\ m1.targetCategory \in Categories
        /\ m1.newPrice # Find(CacheTokens(m1.preCache, m1.targetCategory),
                               m1.tokenId).price
        /\ SnapshotShowsPrice(m2.previousTokens, m1.targetCategory,
                               m1.tokenId, m1.newPrice)

\* the ids of a sequence of tokens
Ids(s) == {s[i].id : i \in 1..Len(s)}

\* a removeToken(id, c) whose write succeeded
RemovedOk(c, id) ==
    \E m \in succeeded :
        m.kind = "remove" /\ m.category = c /\ m.tokenId = id

\* the ids the successful addToken calls put into category c
AddedOk(c) ==
    {NewToken(m).id : m \in {x \in succeeded : x.kind = "add" /\ x.category = c}}

\* the ids a category must still hold: delivered by warm-up or added by a
\* successful addToken, and not removed by a successful removeToken
Expected(c) ==
    {id \in Ids(BatchTokens(c, NumBatches)) \cup AddedOk(c) : ~RemovedOk(c, id)}

\* C12: once the warm-up has completed and no mutation is pending, every
\* token delivered by warm-up or added by a successful addToken is in both
\* stores' collection of its category unless a removeToken for it succeeded.
C12_AbsentOnlyIfRemoved ==
    (wsStarts > 0 /\ inflight = {})
       => \A c \in Categories : \A id \in Expected(c) :
             HasId(redux[c], id) /\ HasId(CacheTokens(cache, c), id)

\* the successful addToken a, alone while pending, was followed at once by
\* the removeToken m2 of the token it added, alone while pending
AddThenRemove(a, m2) ==
    /\ a.kind = "add"
    /\ m2.kind = "remove"
    /\ m2.tokenId = NewToken(a).id
    /\ m2.category = a.category
    /\ ~a.overlapped /\ a.interleaved = {}
    /\ ~m2.overlapped /\ m2.interleaved = {}
    /\ m2.preRedux = addTokenOnSuccessRedux(a.preRedux, a)
    /\ m2.preCache = addTokenOnSuccessCache(a.preCache, a)

\* C13: addToken(category) whose write succeeds, followed by removeToken of
\* the added token whose write succeeds, with no other handler changing a
\* store in between, leaves the category's collection in both stores as it
\* was when the add began: same tokens, same order.
C13_AddThenRemoveRestores ==
    [][\A a \in succeeded : \A m2 \in inflight :
          (AddThenRemove(a, m2) /\ RemoveTokenSuccess(m2))
             => /\ redux'[a.category] = a.preRedux[a.category]
                /\ CacheTokens(cache', a.category)
                      = CacheTokens(a.preCache, a.category)]_vars

C13_Witness ==
    \E a \in succeeded, m2 \in succeeded :
        /\ AddThenRemove(a, m2)
        /\ HasId(m2.preRedux[a.category], NewToken(a).id)
        /\ HasId(CacheTokens(m2.preCache, a.category), NewToken(a).id)
        /\ Len(a.preRedux[a.category]) = CountPerCategory
        /\ redux[a.category] = a.preRedux[a.category]
        /\ CacheTokens(cache, a.category) = CacheTokens(a.preCache, a.category)

\* handleError was called once from outside, at retryCount 0 and with a
\* retryFn; no attempt has succeeded and resetError was not called
LoneFailingChain ==
    /\ Len(retryLog) >= 2
    /\ retryLog[1] = Ev("call", 0, 0)
    /\ retryLog[2].ev = "schedule"
    /\ CountEv(retryLog, "call") = 1
    /\ CountEv(retryLog, "success") = 0
    /\ CountEv(retryLog, "reset") = 0

\* C14: for an operation that fails on every attempt, handed to handleError
\* once at retryCount 0: at most maxRetries retry attempts are made, the
\* max-retries callback is invoked at most once, it is invoked when the
\* maxRetries-th attempt has failed, and then no retry timer is armed.
C14_ExactlyMaxRetries ==
    LoneFailingChain =>
       /\ CountEv(retryLog, "retry") <= options.maxRetries
       /\ CountEv(retryLog, "maxReached") <= 1
       /\ CountEv(retryLog, "fail") >= options.maxRetries
             => /\ CountEv(retryLog, "maxReached") = 1
                /\ retryTimers = {}

\* C15: in a chain of failed retries of one operation the k-th retry
\* (k = 0, 1, 2, ...) is scheduled with the delay of attempt index k, and
\* every failure short of exhaustion schedules exactly one further attempt.
C15_DelayIndexGrows ==
    LoneFailingChain =>
       LET sch == Events(retryLog, "schedule")
       IN /\ \A k \in 1..Len(sch) :
                /\ sch[k].n = k - 1
                /\ sch[k].d >= DelayScale * Min(options.baseDelay * Pow2(k - 1),
                                                options.maxDelay)
          /\ Len(sch) <= CountEv(retryLog, "fail") + 1

\* C16: once the max-retries callback has been invoked and while
\* retryCount >= maxRetries, a handleError call schedules no retry attempt
\* and does not invoke the max-retries callback again.
C16_ExhaustedStaysQuiet ==
    [][\A shouldRetry \in BOOLEAN, random \in RetryRandoms :
          (/\ HandleErrorCall(shouldRetry, random)
           /\ retryCount >= options.maxRetries
           /\ CountEv(retryLog, "maxReached") >= 1
           /\ retryRunning = {})
          => /\ retryTimers' = retryTimers
             /\ CountEv(retryLog', "schedule") = CountEv(retryLog, "schedule")
             /\ CountEv(retryLog', "maxReached")
                   = CountEv(retryLog, "maxReached")]_vars

\* min(baseDelay * 2^a, maxDelay), in ms
Backoff(o, a) == Min(o.baseDelay * Pow2(a), o.maxDelay)

\* C17: calculateDelay(a) is at least d = min(baseDelay * 2^a, maxDelay)
\* and at most 1.1 * d.
C17_JitterOnlyAdds ==
    delayResult # -1 =>
       LET d == Backoff(options, delayAttempt)
       IN /\ delayResult >= d * DelayScale
          /\ 10 * delayResult <= 11 * d * DelayScale

C17_Witness ==
    /\ delayResult # -1
    /\ delayAttempt >= 1
    /\ delayRandom > 0
    /\ delayResult > Backoff(options, delayAttempt) * DelayScale
    /\ Backoff(options, delayAttempt) < options.maxDelay

\* C18: the delay calculateDelay(a) returns, jitter included, is at most
\* maxDelay.
C18_DelayWithinMax ==
    delayResult # -1 => delayResult <= options.maxDelay * DelayScale

C20_ProbeOnlyWhenDown ==
    /\ [](connectionStatus \in {"connecting", "connected"}
             => probeInterval = -1)
    /\ [][nProbes' # nProbes
            => /\ connectionStatus \in {"error", "disconnected"}
               /\ retryAttempt < RecoveryMaxRetries
               /\ connectionStatus' = "connecting"]_vars

C20_Witness ==
    /\ nProbes > 1
    /\ probing = 1
    /\ retryAttempt > 0
    /\ connectionStatus = "connecting"
    /\ probeInterval = -1

\* C21: a probe that succeeds sets connectionStatus to connected and the
\* attempt counter to 0; a probe that fails sets connectionStatus to error
\* and adds exactly 1 to the attempt counter. Stated for the mounted hook.
C21_ProbeOutcome ==
    [][recoveryMounted =>
          /\ ProbeSucceeds
                => connectionStatus' = "connected" /\ retryAttempt' = 0
          /\ ProbeFails
                => /\ connectionStatus' = "error"
                   /\ retryAttempt' = retryAttempt + 1]_vars

\* two probes failed and the third succeeded, with no external signal
C21_Witness ==
    /\ recoveryMounted
    /\ nSignals = 0
    /\ nProbes = 3
    /\ probing = 0
    /\ failStreak = 0
    /\ retryAttempt = 0
    /\ connectionStatus = "connected"

\* the notification with this id is in the queue
InQueue(id) == \E i \in 1..Len(notifications) : notifications[i].id = id

Range(q) == {q[i] : i \in 1..Len(q)}

\* C22: the notification queue holds at most 5 entries, in the order they
\* were added (newest last); addNotification appends the new entry, and on
\* a queue of 5 it drops the oldest and keeps the other four in order.
C22_QueueCapacity ==
    /\ [](/\ Len(notifications) <= 5
          /\ \A i \in 1..Len(notifications) : \A j \in 1..Len(notifications) :
                i < j => notifications[i].id < notifications[j].id)
    /\ [][\A k \in NotificationKinds :
            AddNotification(k[1], k[2]) =>
               LET new == [id |-> nNotified + 1, message |-> k[1],
                           type |-> k[2]]
               IN notifications' =
                     IF Len(notifications) = 5
                     THEN Append(Tail(notifications), new)
                     ELSE Append(notifications, new)]_vars

\* six were added with none removed: the first was evicted
C22_Witness ==
    /\ nNotified = 6
    /\ Len(expiryTimers) = 6
    /\ Len(notifications) = 5
    /\ \A i \in 1..5 : notifications[i].id = i + 1

\* C23: dismissing an id a second time gives the queue the first dismissal
\* gave, and dismissNotification or an auto-dismiss timer for an id that is
\* not in the queue leaves the queue as it is.
C23_DismissIdempotent ==
    /\ [](\A id \in 1..MaxNotifications :
             dismissNotification(dismissNotification(notifications, id), id)
                = dismissNotification(notifications, id))
    /\ [][/\ \A id \in 1..MaxNotifications :
               (DismissNotification(id) /\ ~InQueue(id))
                  => notifications' = notifications
          /\ (ExpiryFires /\ ~InQueue(Head(expiryTimers)))
                  => notifications' = notifications]_vars

\* an id that was given out is not in the queue, which holds others, and
\* its timer has yet to fire
C23_Witness ==
    /\ Len(notifications) >= 2
    /\ expiryTimers # <<>>
    /\ ~InQueue(Head(expiryTimers))
    /\ dismissNotification(notifications, Head(expiryTimers)) = notifications

\* C24: every notification in the queue is removed eventually; while it is
\* in the queue its own auto-dismiss timer is armed, and a timer that fires
\* removes the notification it was armed for and no other.
C24_EveryNotificationExpires ==
    /\ \A id \in 1..MaxNotifications : InQueue(id) ~> ~InQueue(id)
    /\ [](\A id \in 1..MaxNotifications :
             InQueue(id) => id \in Range(expiryTimers))
    /\ [][ExpiryFires =>
            \A id \in 1..MaxNotifications :
               InQueue(id)' <=> (InQueue(id) /\ id # Head(expiryTimers))]_vars

\* the first notification is gone and its timer has fired; the second is
\* in the queue with its timer armed
C24_Witness ==
    /\ nNotified = 2
    /\ expiryTimers = <<2>>
    /\ Len(notifications) = 1
    /\ notifications[1].id = 2

\* the PriceUpdate names a token that is neither in the id-to-category index
\* (allTokensRef) nor in any category of either store
UnknownDelta(u) ==
    \A c \in Categories :
        /\ ~HasId(allTokensRef[c], u.tokenId)
        /\ ~HasId(redux[c], u.tokenId)
        /\ ~HasId(CacheTokens(cache, c), u.tokenId)

\* C25: the subscription handler, given PriceUpdates that all name an
\* unknown tokenId, leaves the State Store and the Cache Layer (values and
\* stale marks) as they were, so no token is created, and leaves the error
\* state and the notification queue as they were.
C25_UnknownDeltaIsNoOp ==
    [][\A updates \in DeltaBatches :
          (/\ OnPriceUpdates(updates)
           /\ \A i \in 1..Len(updates) : UnknownDelta(updates[i]))
          => /\ redux' = redux
             /\ cache' = cache
             /\ cacheAll' = cacheAll
             /\ invalidated' = invalidated
             /\ error' = error
             /\ notifications' = notifications]_vars

\* every tick so far carried the unknown id: ticks were delivered and no
\* token shows a delta's values, none has the unknown id
C25_Witness ==
    /\ nTicks > 0
    /\ nMut = 0
    /\ wsRunning
    /\ \A c \in Categories :
          /\ ~HasId(redux[c], UnknownId)
          /\ ~HasId(CacheTokens(cache, c), UnknownId)
          /\ redux[c] = BatchTokens(c, NumBatches)
          /\ CacheTokens(cache, c) = BatchTokens(c, NumBatches)
    /\ notifications = <<>>

\* the last update of the array that names id
LastUpdate(updates, id) ==
    updates[CHOOSE i \in 1..Len(updates) :
               /\ updates[i].tokenId = id
               /\ \A j \in (i + 1)..Len(updates) : updates[j].tokenId # id]

\* s1 is s with price, priceChange1m and priceChange5m of every token the
\* array names set to the values of the last update naming it, and with
\* everything else (other fields, other tokens, length, order) as in s
Overwritten(s, s1, updates) ==
    /\ Len(s1) = Len(s)
    /\ \A i \in 1..Len(s) :
          s1[i] = IF \E k \in 1..Len(updates) : updates[k].tokenId = s[i].id
                  THEN LET u == LastUpdate(updates, s[i].id)
                       IN [s[i] EXCEPT !.price = u.price,
                                       !.priceChange1m = u.priceChange1m,
                                       !.priceChange5m = u.priceChange5m]
                  ELSE s[i]

\* the PriceUpdate names a token of the id-to-category index
KnownDelta(u) == \E c \in Categories : HasId(allTokensRef[c], u.tokenId)

\* C26: a handler that applies PriceUpdates for known tokens (the
\* subscription handler, useBatchUpdatePrices.onSuccess) leaves every
\* category of both stores as it was but for price, priceChange1m and
\* priceChange5m of the tokens named, which hold the values of the last
\* update naming them.
C26_DeltaOverwritesThreeFields ==
    [][\A updates \in DeltaBatches \cup BatchUpdateChoices :
          (/\ OnPriceUpdates(updates) \/ BatchUpdatePrices(updates)
           /\ \A i \in 1..Len(updates) : KnownDelta(updates[i]))
          => \A c \in Categories :
                /\ Overwritten(redux[c], redux'[c], updates)
                /\ Overwritten(CacheTokens(cache, c), CacheTokens(cache', c),
                               updates)]_vars

\* the same for the subscription handler alone
SubscriptionOverwritesThreeFields ==
    [][\A updates \in DeltaBatches :
          (/\ OnPriceUpdates(updates)
           /\ \A i \in 1..Len(updates) : KnownDelta(updates[i]))
          => \A c \in Categories :
                /\ Overwritten(redux[c], redux'[c], updates)
                /\ Overwritten(CacheTokens(cache, c), CacheTokens(cache', c),
                               updates)]_vars

\* key c holds data and is marked stale in the state a step leaves
StaleWithData(c) == cache'[c].has /\ c \in invalidated'

\* C27: the step in which updatePrice, addToken or removeToken settles
\* leaves the keys its onSettled names (every tokens key for updatePrice,
\* the category key for addToken and removeToken) marked stale, each still
\* holding the value the success or failure handler left: the cache as it
\* was when the write succeeded without an onSuccess, the new token
\* prepended for a successful addToken, the snapshot after a failure.
C27_SettleMarksStale ==
    [][\A m \in inflight :
          /\ UpdatePriceSuccess(m)
                => /\ \A c \in Categories : StaleWithData(c)
                   /\ cache' = cache
          /\ UpdatePriceError(m)
                => /\ \A c \in Categories : StaleWithData(c)
                   /\ cache' = updatePriceOnErrorCache(cache, m)
          /\ AddTokenSuccess(m)
                => /\ StaleWithData(m.category)
                   /\ cache' = addTokenOnSuccessCache(cache, m)
          /\ AddTokenError(m)
                => /\ StaleWithData(m.category)
                   /\ cache' = addTokenOnErrorCache(cache, m)
          /\ RemoveTokenSuccess(m)
                => /\ StaleWithData(m.category)
                   /\ cache' = cache
          /\ RemoveTokenError(m)
                => /\ StaleWithData(m.category)
                   /\ cache' = removeTokenOnErrorCache(cache, m)]_vars

\* a removeToken has succeeded, nothing is pending, and the category key
\* is stale with its data, the removed token not among them
C27_Witness ==
    /\ inflight = {}
    /\ \E m \in succeeded :
          /\ m.kind = "remove"
          /\ m.category = "new-pairs"
          /\ m.tokenId = 101
    /\ cache["new-pairs"].has
    /\ "new-pairs" \in invalidated
    /\ ~HasId(CacheTokens(cache, "new-pairs"), 101)

\* the value a token is sorted by
SortKey(t, sortBy) ==
    CASE sortBy = "price" -> t.price
      [] sortBy = "priceChange1m" -> t.priceChange1m
      [] sortBy = "priceChange5m" -> t.priceChange5m
      [] sortBy = "priceChange1h" -> t.priceChange1h
      [] sortBy = "marketCap" -> t.marketCap
      [] sortBy = "liquidity" -> t.liquidity
      [] sortBy = "volume24h" -> t.volume24h
      [] sortBy = "createdAt" -> DateGetTime(t.createdAt)
      [] sortBy = "holders" -> t.holders

StoredRefs == {SliceRef(c) : c \in Categories}

\* C28: an evaluation of the sorted selection returns an array that is not
\* one of the State Store's, and leaves the collection of every category
\* with the same tokens in the same order.
C28_SortLeavesStoreAlone ==
    [][\A category \in Categories :
          SelectSorted(category)
          => /\ sortResult'.ref \notin StoredRefs
             /\ \A ref \in StoredRefs : arrays'[ref] = arrays[ref]]_vars

\* two evaluations were made and the last returned an order that is not
\* the stored one
C28_Witness ==
    /\ nSelects >= 2
    /\ sortResult # NoResult
    /\ Len(arrays[sortResult.ref]) >= 2
    /\ arrays[sortResult.ref] # arrays[SliceRef(sortResult.category)]

\* s and t hold the same tokens, each as often
IsPermutation(s, t) ==
    /\ Len(s) = Len(t)
    /\ \A i \in 1..Len(t) :
          Cardinality({j \in 1..Len(s) : s[j] = t[i]})
             = Cardinality({j \in 1..Len(t) : t[j] = t[i]})

InKeyOrder(s, sortBy, sortOrder) ==
    \A i \in 1..(Len(s) - 1) :
        /\ sortOrder = "asc"
              => SortKey(s[i], sortBy) <= SortKey(s[i + 1], sortBy)
        /\ sortOrder = "desc"
              => SortKey(s[i], sortBy) >= SortKey(s[i + 1], sortBy)

\* C29: what an evaluation of the sorted selection returns, for any
\* category and any of the nine sort keys, is a permutation of the
\* category's stored collection whose adjacent elements are in
\* non-decreasing key order when the direction is asc and in
\* non-increasing key order when it is desc.
C29_SortedPermutation ==
    [][\A category \in Categories :
          SelectSorted(category)
          => LET result == arrays'[sortResult'.ref]
                 config == sortConfig[category]
             IN /\ config.sortBy \in SortOptions
                /\ IsPermutation(result, arrays[SliceRef(category)])
                /\ InKeyOrder(result, config.sortBy, config.sortOrder)]_vars

\* a descending result of three tokens with three different keys, which
\* were stored in another order
C29_Witness ==
    /\ sortResult # NoResult
    /\ sortConfig[sortResult.category].sortOrder = "desc"
    /\ LET result == arrays[sortResult.ref]
           sortBy == sortConfig[sortResult.category].sortBy
       IN /\ Len(result) = 3
          /\ SortKey(result[1], sortBy) > SortKey(result[2], sortBy)
          /\ SortKey(result[2], sortBy) > SortKey(result[3], sortBy)
          /\ result # arrays[SliceRef(sortResult.category)]

\* the place of the token with this id in s
Position(s, id) == CHOOSE i \in 1..Len(s) : s[i].id = id

\* C30: in what an evaluation of the sorted selection returns, two tokens
\* with equal sort-key values are in the order they have in the stored
\* collection, whatever the direction.
C30_TiesKeepArrivalOrder ==
    [][\A category \in Categories :
          SelectSorted(category)
          => LET result == arrays'[sortResult'.ref]
                 stored == arrays[SliceRef(category)]
                 sortBy == sortConfig[category].sortBy
             IN \A i, j \in 1..Len(stored) :
                   (i < j /\ SortKey(stored[i], sortBy)
                                = SortKey(stored[j], sortBy))
                   => Position(result, stored[i].id)
                         < Position(result, stored[j].id)]_vars

\* a descending result in which two tokens tie behind a token that was
\* stored after them
C30_Witness ==
    /\ sortResult # NoResult
    /\ sortConfig[sortResult.category].sortOrder = "desc"
    /\ LET result == arrays[sortResult.ref]
           stored == arrays[SliceRef(sortResult.category)]
           sortBy == sortConfig[sortResult.category].sortBy
       IN /\ Len(result) = 3
          /\ result[1] = stored[3]
          /\ result[2] = stored[1]
          /\ result[3] = stored[2]
          /\ SortKey(result[2], sortBy) = SortKey(result[3], sortBy)

\* C31: a call of the sorted selection for the category of the call before
\* it, with that category's collection and sort config still those the
\* last result was computed from, computes nothing and returns the array
\* returned before.
C31_RecomputedOnlyOnInputChange ==
    [][\A category \in Categories :
          (/\ SelectSorted(category)
           /\ sortResult.category = category
           /\ sortResult.config = sortConfig[category]
           /\ sortResult.tokens = arrays[SliceRef(category)])
          => /\ sortResult' = sortResult
             /\ arrays' = arrays]_vars

\* the keys a mutation's onMutate cancels the fetches of, and the key whose
\* cached tokens it changes
CancelledKeys(m) == IF m.kind = "update" THEN AllKeys ELSE {m.category}

\* C32: the step in which onMutate of updatePrice, addToken or removeToken
\* runs leaves no fetch in flight for the keys it names, and as long as the
\* mutation is pending no fetch that was in flight for one of those keys
\* when it began writes its response to the Cache Layer.
C32_RefetchCancelledBeforeSnapshot ==
    [][/\ \A m \in Issued :
             \A f \in fetching : f.key \in CancelledKeys(m) => f \notin fetching'
       /\ \A f \in fetching :
             FetchResponds(f)
             => \A m \in inflight :
                   ~(f \in m.preFetching /\ f.key \in CancelledKeys(m))]_vars

\* an updatePrice on a token of new-pairs is pending with its optimistic
\* price in the cache; a fetch for new-pairs was in flight when it began
\* and is in flight no more
C32_Witness ==
    \E m \in inflight :
        /\ m.kind = "update"
        /\ m.tokenId = 101
        /\ \E f \in m.preFetching : f.key = "new-pairs"
        /\ fetching = {}
        /\ ShowsPrice(CacheTokens(cache, "new-pairs"), 101, m.newPrice)
        /\ HasId(CacheTokens(cache, "new-pairs"), 101)

\* the two stores hold the token with this id in the same categories, with
\* the same value in every field
SameToken(r, q, tokenId) ==
    \A c \in Categories :
        /\ HasId(r[c], tokenId) <=> HasId(CacheTokens(q, c), tokenId)
        /\ HasId(r[c], tokenId)
              => Find(r[c], tokenId) = Find(CacheTokens(q, c), tokenId)

KnownToken(r, q, tokenId) ==
    \E c \in Categories : HasId(r[c], tokenId) /\ HasId(CacheTokens(q, c), tokenId)

\* C38: onMutate of updatePrice for a token both stores hold with the same
\* values leaves the two stores holding the token with the same value in
\* every field, and so does the step in which its write succeeds when
\* nothing else changed a store in between.
C38_OptimisticStepKeepsTokenEqual ==
    [][/\ \A tokenId \in FocusIds, newPrice \in PriceChoices :
            (/\ UpdatePriceMutate(tokenId, newPrice)
             /\ KnownToken(redux, cache, tokenId)
             /\ SameToken(redux, cache, tokenId))
            => SameToken(redux', cache', tokenId)
       /\ \A m \in inflight :
            (/\ UpdatePriceSuccess(m)
             /\ KnownToken(m.preRedux, m.preCache, m.tokenId)
             /\ SameToken(m.preRedux, m.preCache, m.tokenId)
             /\ ~m.overlapped
             /\ m.interleaved = {})
            => SameToken(redux', cache', m.tokenId)]_vars

\* the place in the log of the last entry with this name, 0 when none
LastIndex(log, ev) ==
    IF \E i \in 1..Len(log) : log[i].ev = ev
    THEN CHOOSE i \in 1..Len(log) :
            log[i].ev = ev /\ \A j \in (i + 1)..Len(log) : log[j].ev # ev
    ELSE 0

\* the place in the log of the entry that armed retry timer t: timers are
\* numbered as they are armed
ScheduledAt(log, t) ==
    CHOOSE i \in 1..Len(log) :
        /\ log[i].ev = "schedule"
        /\ Cardinality({j \in 1..i : log[j].ev = "schedule"}) = t.id

\* C33: resetError leaves retryCount 0 and isRetrying false, and a retry
\* timer that fires after a resetError was armed after it, by or following
\* a handleError call made after it.
C33_ResetStopsRetries ==
    [][/\ resetError => (retryCount' = 0 /\ isRetrying' = FALSE)
       /\ \A t \in retryTimers :
             (RetryTimerFires(t) /\ LastIndex(retryLog, "reset") > 0)
             => \E k \in 1..Len(retryLog) :
                   /\ retryLog[k].ev = "call"
                   /\ LastIndex(retryLog, "reset") < k
                   /\ k < ScheduledAt(retryLog, t)]_vars

\* C34: at most one retry timer is armed, and an armed retry timer is the
\* one retryTimeoutRef holds.
C34_OneRetryTimer ==
    /\ Cardinality(retryTimers) <= 1
    /\ \A t \in retryTimers : t.id = retryTimeoutRef

\* C35: the attempt counter of the connection recovery never exceeds
\* maxRetries and at most one probe awaits its connectFn.
C35_BoundedAttemptsOneProbe ==
    /\ retryAttempt <= RecoveryMaxRetries
    /\ probing <= 1

\* both stores hold the token, at the given price
BothShow(r, q, tokenId, price) ==
    /\ KnownToken(r, q, tokenId)
    /\ \A c \in Categories :
          /\ ShowsPrice(r[c], tokenId, price)
          /\ ShowsPrice(CacheTokens(q, c), tokenId, price)

\* m1 and m2 are the only mutations issued, both updatePrice of one known
\* token, m2 begun while m1 was pending; both have settled and no delta has
\* been delivered
OverlappingPair(m1, m2) ==
    /\ inflight = {} /\ nMut = 2 /\ nTicks = 0
    /\ m1.mid = 1 /\ m2.mid = 2
    /\ m1.kind = "update" /\ m2.kind = "update"
    /\ m1.tokenId = m2.tokenId
    /\ m1.targetCategory # "null"
    /\ m2.overlapped

\* C36: when two overlapping updatePrice mutations of one token have both
\* settled and the later one's write succeeded, both stores hold the later
\* one's price for the token, whatever the earlier one's outcome.
C36_LaterSuccessWins ==
    \A m1 \in succeeded \cup failed, m2 \in succeeded :
        OverlappingPair(m1, m2)
        => BothShow(redux, cache, m2.tokenId, m2.newPrice)

\* C37: when two overlapping updatePrice mutations of one token have both
\* failed, both stores hold the price the token had before the first began.
C37_AllFailedRestoresOriginal ==
    \A m1 \in failed, m2 \in failed :
        OverlappingPair(m1, m2)
        => BothShow(redux, cache, m1.tokenId,
                    Find(m1.preRedux[m1.targetCategory], m1.tokenId).price)

\* ------------------------------------------------------------ Synchronization Coordinator: re-initialisation
\* The init effect depends on [dispatch, queryClient, countPerCategory]:
\* when one of them changes, React runs the effect's cleanup and then the
\* effect again, in the same hook instance, whose allTokensRef is kept.

\* the number of warm-up runs the model follows
MaxRuns == 2

\* the warm-up runs started so far: each writes 'connecting' once
Runs == CountOf(statusLog, InitialStatus)

\* the init effect runs again (the model follows a re-run that begins after
\* the earlier run's batch timers have all fired): its cleanup stops the
\* live feed, its body writes 'connecting' and arms the 200 ms timer, which
\* starts a new generateProgressiveTokens
Reinit ==
    /\ phase = "mounted"
    /\ startDelay = "fired"
    /\ \A c \in Categories : delivered[c] = NumBatches
    /\ Runs < MaxRuns
    /\ wsRunning' = FALSE
    /\ connectionStatus' = InitialStatus
    /\ statusLog' = Append(statusLog, InitialStatus)
    /\ startDelay' = "pending"
    /\ delivered' = [c \in Categories |-> 0]
    /\ UNCHANGED <<redux, cache, cacheAll, invalidated, allTokensRef, phase,
                   wsTokens, wsStarts, subscribed, inflight, nMut, nTicks,
                   notifications, succeeded, failed, fetching>>
    /\ UNCHANGED <<resilienceVars, sortVars>>

\* the Coordinator alone: no mutation is issued
ReinitNext == SyncNext \/ Reinit

ReinitSpec == Init /\ [][ReinitNext]_vars

\* C39: a step that writes 'connected' and starts the live feed leaves every
\* category with its complete batch delivered in the current warm-up run,
\* in the first run and in a run started by a re-initialisation.
C39_ConnectedOnlyWhenAllComplete ==
    [][wsStarts' # wsStarts
       => \A c \in Categories : IsComplete(delivered'[c])]_vars

====
